---- MODULE Spec2Model ----
(***************************************************************************)
(* Stacks Lend: the p2p-lending escrow contract (contracts/p2p-lending.clar)*)
(* together with the sbtc-token contract it calls and the two Clarity      *)
(* asset primitives (stx-transfer?, ft-transfer?) it relies on.            *)
(*                                                                         *)
(* One transaction is one step.  A public function that returns (err ...)  *)
(* or aborts at run time has every effect rolled back by the chain, so an  *)
(* operation is modelled as a function from the pre-state to a response    *)
(* and a post-state, the post-state being the pre-state on any failure.    *)
(***************************************************************************)
EXTENDS Integers, FiniteSets, Sequences, TLC

\* ---------------------------------------------------------------- bounds
MaxLoanId     == 2  \* loan ids are 1..MaxLoanId
MaxPrincipal  == 1  \* principal-amount passed to create-loan is 0..MaxPrincipal
MaxRepay      == 2  \* repay-amount passed to create-loan is 0..MaxRepay
MaxCollateral == 2  \* collateral-amount passed to create-loan is 0..MaxCollateral
MaxDuration   == 1  \* durations passed to create-loan are 0..MaxDuration, and UintMax
MaxBlock      == 3  \* block-height runs over 1..MaxBlock
InitStx       == 2  \* STX each user holds at genesis
InitSbtc      == 2  \* sbtc each user holds once the deployer has minted
UintMax       == 6  \* largest uint (2^128 - 1 on chain, narrowed here)
MaxMint       == 2  \* amounts passed to mint and to a direct transfer are 0..MaxMint

\* ------------------------------------------------------------- constants
STATUS_OPEN      == 0
STATUS_FUNDED    == 1
STATUS_REPAID    == 2
STATUS_DEFAULTED == 3
STATUS_CANCELLED == 4

ERR_LOAN_EXISTS    == 100
ERR_LOAN_NOT_FOUND == 101
ERR_NOT_BORROWER   == 102
ERR_NOT_LENDER     == 103
ERR_NOT_OPEN       == 104
ERR_NOT_FUNDED     == 105
ERR_PAST_DUE       == 106
ERR_NOT_PAST_DUE   == 107
ERR_BAD_AMOUNT     == 108
ERR_SAME_ASSET     == 109
ERR_NO_LENDER      == 110
ERR_BAD_REPAY      == 111

ERR_NOT_OWNER    == 200
ERR_UNAUTHORIZED == 201

\* error codes of the built-in stx-transfer? and ft-transfer?
ERR_INSUFFICIENT_BALANCE == 1
ERR_SENDER_IS_RECIPIENT  == 2
ERR_NON_POSITIVE_AMOUNT  == 3
ERR_SENDER_NOT_TX_SENDER == 4
\* error code of the built-in ft-mint? for an amount of 0
ERR_MINT_NON_POSITIVE    == 1

\* ------------------------------------------------------------ principals
\* the standard principals that sign transactions
Users    == {"wallet_1", "wallet_2"}
\* (as-contract tx-sender) inside p2p-lending: the contract's own principal
contract_self == "p2p-lending"
Accounts == Users \cup {contract_self}
\* the principal that deployed sbtc-token
deployer == "deployer"
\* (define-data-var owner principal tx-sender): no function writes it
owner == deployer
\* every principal that can hold the token or sign a call of it
Principals == Accounts \cup {deployer}

none == "none"

LoanIds   == 1..MaxLoanId
PrincipalAmounts  == 0..MaxPrincipal
RepayAmounts      == 0..MaxRepay
CollateralAmounts == 0..MaxCollateral
Durations == (0..MaxDuration) \cup {UintMax}
MintAmounts == 0..MaxMint

VARIABLES
  loans,         \* (define-map loans ...): a function from the ids present to records
  stx,           \* STX balance of every account
  sbtc,          \* (define-fungible-token sbtc): token balance of every account
  block_height,  \* the chain's block-height
  succeeded,     \* history: how often each operation has answered ok, per loan id
  given_duration, \* history: the duration passed to the create-loan that made each loan
  total_supply,  \* (define-data-var total-supply uint u0) of sbtc-token
  currentBlock   \* the frontend's useState(0): the block height its user typed in

vars == <<loans, stx, sbtc, block_height, succeeded, given_duration, total_supply, currentBlock>>

\* ------------------------------------------------------------- responses
Ok       == [ok |-> TRUE,  code |-> 0]
Err(c)   == [ok |-> FALSE, code |-> c]
\* a run-time error (arithmetic overflow): the transaction is aborted
Aborted  == [ok |-> FALSE, code |-> -1]

\* the part of the chain state a transaction of the lending contract can touch
Ledger == [loans |-> loans, stx |-> stx, sbtc |-> sbtc]

Reply(r, l) == [res |-> r, ledger |-> l]

\* ------------------------------------------------- the asset primitives
\* (stx-transfer? amount sender recipient) evaluated with the given tx-sender
stx_transfer(amount, sender, recipient, tx_sender, l) ==
  IF amount = 0 THEN Reply(Err(ERR_NON_POSITIVE_AMOUNT), l)
  ELSE IF sender = recipient THEN Reply(Err(ERR_SENDER_IS_RECIPIENT), l)
  ELSE IF sender # tx_sender THEN Reply(Err(ERR_SENDER_NOT_TX_SENDER), l)
  ELSE IF l.stx[sender] < amount THEN Reply(Err(ERR_INSUFFICIENT_BALANCE), l)
  ELSE Reply(Ok, [l EXCEPT !.stx = [@ EXCEPT ![sender] = @ - amount,
                                             ![recipient] = @ + amount]])

\* (ft-transfer? sbtc amount sender recipient)
ft_transfer(amount, sender, recipient, l) ==
  IF amount = 0 THEN Reply(Err(ERR_NON_POSITIVE_AMOUNT), l)
  ELSE IF sender = recipient THEN Reply(Err(ERR_SENDER_IS_RECIPIENT), l)
  ELSE IF l.sbtc[sender] < amount THEN Reply(Err(ERR_INSUFFICIENT_BALANCE), l)
  ELSE Reply(Ok, [l EXCEPT !.sbtc = [@ EXCEPT ![sender] = @ - amount,
                                              ![recipient] = @ + amount]])

\* sbtc-token transfer without its authorization assert
transfer_unchecked(amount, sender, recipient, tx_sender, contract_caller, l) ==
  ft_transfer(amount, sender, recipient, l)

\* sbtc-token transfer, called with the given tx-sender and contract-caller
transfer(amount, sender, recipient, tx_sender, contract_caller, l) ==
  IF ~(tx_sender = sender \/ contract_caller = sender)
    THEN Reply(Err(ERR_UNAUTHORIZED), l)
    ELSE ft_transfer(amount, sender, recipient, l)

\* transfer-asset of p2p-lending: the token is reached by contract-call?, so
\* inside it contract-caller is p2p-lending while tx-sender stays the signer
transfer_asset(is_stx, amount, sender, recipient, tx_sender, l) ==
  IF is_stx
    THEN stx_transfer(amount, sender, recipient, tx_sender, l)
    ELSE transfer(amount, sender, recipient, tx_sender, contract_self, l)

\* --------------------------------------------------------- the loan map
\* (is-some (map-get? loans {loan-id: loan-id}))
map_has(l, loan_id) == loan_id \in DOMAIN l.loans

\* the record (map-get? loans {loan-id: loan-id}) holds, where there is one
map_get(l, loan_id) == l.loans[loan_id]

\* a map-set that writes the record under every key
map_set_every_key(l, loan_id, rec) ==
  [l EXCEPT !.loans = [i \in (DOMAIN l.loans) \cup {loan_id} |-> rec]]

map_set(l, loan_id, rec) ==
  [l EXCEPT !.loans = [i \in (DOMAIN l.loans) \cup {loan_id} |->
                          IF i = loan_id THEN rec ELSE l.loans[i]]]

get_loan(loan_id) ==
  IF map_has(Ledger, loan_id) THEN map_get(Ledger, loan_id) ELSE none

\* uint addition: overflow is a run-time error
Overflows(a, b) == a + b > UintMax

\* ------------------------------------------------------------ sbtc-token
\* the answer of mint: a response, the ledger and total-supply after it
Minted(r, l, supply) == [res |-> r, ledger |-> l, total_supply |-> supply]

\* mint open to every caller
mint_call_anyone(amount, recipient, tx_sender, l, supply) ==
  IF amount = 0 THEN Minted(Err(ERR_MINT_NON_POSITIVE), l, supply)
  ELSE IF Overflows(supply, amount) THEN Minted(Aborted, l, supply)
  ELSE Minted(Ok, [l EXCEPT !.sbtc[recipient] = @ + amount], supply + amount)

\* mint of sbtc-token, signed by tx_sender
mint_call(amount, recipient, tx_sender, l, supply) ==
  IF tx_sender # owner THEN Minted(Err(ERR_NOT_OWNER), l, supply)
  ELSE IF amount = 0 THEN Minted(Err(ERR_MINT_NON_POSITIVE), l, supply)
  ELSE IF Overflows(supply, amount) THEN Minted(Aborted, l, supply)
  ELSE Minted(Ok, [l EXCEPT !.sbtc[recipient] = @ + amount], supply + amount)

\* ------------------------------------------------ p2p-lending operations
\* create-loan without its (is-none (map-get? ...)) assert
create_loan_guard_overwrite(l, loan_id, principal_is_stx, principal_amount, repay_amount, duration, collateral_is_stx, collateral_amount) ==
  IF principal_is_stx = collateral_is_stx THEN Err(ERR_SAME_ASSET)
  ELSE IF ~(principal_amount > 0) THEN Err(ERR_BAD_AMOUNT)
  ELSE IF ~(collateral_amount > 0) THEN Err(ERR_BAD_AMOUNT)
  ELSE IF ~(duration > 0) THEN Err(ERR_BAD_AMOUNT)
  ELSE IF ~(repay_amount >= principal_amount) THEN Err(ERR_BAD_REPAY)
  ELSE Ok

\* create-loan checking the id only after it has validated the arguments
create_loan_guard_late_exists(l, loan_id, principal_is_stx, principal_amount, repay_amount, duration, collateral_is_stx, collateral_amount) ==
  IF principal_is_stx = collateral_is_stx THEN Err(ERR_SAME_ASSET)
  ELSE IF ~(principal_amount > 0) THEN Err(ERR_BAD_AMOUNT)
  ELSE IF ~(collateral_amount > 0) THEN Err(ERR_BAD_AMOUNT)
  ELSE IF ~(duration > 0) THEN Err(ERR_BAD_AMOUNT)
  ELSE IF ~(repay_amount >= principal_amount) THEN Err(ERR_BAD_REPAY)
  ELSE IF map_has(l, loan_id) THEN Err(ERR_LOAN_EXISTS)
  ELSE Ok

\* create-loan without its duration assert
create_loan_guard_no_duration(l, loan_id, principal_is_stx, principal_amount, repay_amount, duration, collateral_is_stx, collateral_amount) ==
  IF map_has(l, loan_id) THEN Err(ERR_LOAN_EXISTS)
  ELSE IF principal_is_stx = collateral_is_stx THEN Err(ERR_SAME_ASSET)
  ELSE IF ~(principal_amount > 0) THEN Err(ERR_BAD_AMOUNT)
  ELSE IF ~(collateral_amount > 0) THEN Err(ERR_BAD_AMOUNT)
  ELSE IF ~(repay_amount >= principal_amount) THEN Err(ERR_BAD_REPAY)
  ELSE Ok

\* create-loan without its asset-kind assert
create_loan_guard_same_asset(l, loan_id, principal_is_stx, principal_amount, repay_amount, duration, collateral_is_stx, collateral_amount) ==
  IF map_has(l, loan_id) THEN Err(ERR_LOAN_EXISTS)
  ELSE IF ~(principal_amount > 0) THEN Err(ERR_BAD_AMOUNT)
  ELSE IF ~(collateral_amount > 0) THEN Err(ERR_BAD_AMOUNT)
  ELSE IF ~(duration > 0) THEN Err(ERR_BAD_AMOUNT)
  ELSE IF ~(repay_amount >= principal_amount) THEN Err(ERR_BAD_REPAY)
  ELSE Ok

\* the asserts! of create-loan, in order: the first one that fails answers
create_loan_guard(l, loan_id, principal_is_stx, principal_amount, repay_amount, duration, collateral_is_stx, collateral_amount) ==
  IF map_has(l, loan_id) THEN Err(ERR_LOAN_EXISTS)
  ELSE IF principal_is_stx = collateral_is_stx THEN Err(ERR_SAME_ASSET)
  ELSE IF ~(principal_amount > 0) THEN Err(ERR_BAD_AMOUNT)
  ELSE IF ~(collateral_amount > 0) THEN Err(ERR_BAD_AMOUNT)
  ELSE IF ~(duration > 0) THEN Err(ERR_BAD_AMOUNT)
  ELSE IF ~(repay_amount >= principal_amount) THEN Err(ERR_BAD_REPAY)
  ELSE Ok

\* create-loan that records the loan without taking the collateral
create_loan_call_no_escrow(loan_id, principal_is_stx, principal_amount, repay_amount, duration, collateral_is_stx, collateral_amount, tx_sender, l) ==
  LET g == create_loan_guard(l, loan_id, principal_is_stx, principal_amount,
                             repay_amount, duration, collateral_is_stx,
                             collateral_amount) IN
  IF ~g.ok THEN Reply(g, l)
  ELSE Reply(Ok, map_set(l, loan_id,
           [borrower          |-> tx_sender,
            lender            |-> none,
            principal_is_stx  |-> principal_is_stx,
            principal_amount  |-> principal_amount,
            collateral_is_stx |-> collateral_is_stx,
            collateral_amount |-> collateral_amount,
            repay_amount      |-> repay_amount,
            start_block       |-> 0,
            end_block         |-> duration,
            status            |-> STATUS_OPEN]))

create_loan_call(loan_id, principal_is_stx, principal_amount, repay_amount, duration, collateral_is_stx, collateral_amount, tx_sender, l) ==
  LET g == create_loan_guard(l, loan_id, principal_is_stx, principal_amount,
                             repay_amount, duration, collateral_is_stx,
                             collateral_amount) IN
  IF ~g.ok THEN Reply(g, l)
  ELSE
    LET t == transfer_asset(collateral_is_stx, collateral_amount,
                            tx_sender, contract_self, tx_sender, l) IN
    IF ~t.res.ok THEN Reply(t.res, l)
    ELSE Reply(Ok, map_set(t.ledger, loan_id,
           [borrower          |-> tx_sender,
            lender            |-> none,
            principal_is_stx  |-> principal_is_stx,
            principal_amount  |-> principal_amount,
            collateral_is_stx |-> collateral_is_stx,
            collateral_amount |-> collateral_amount,
            repay_amount      |-> repay_amount,
            start_block       |-> 0,
            end_block         |-> duration,
            status            |-> STATUS_OPEN]))

\* cancel-loan without its borrower assert
cancel_loan_guard_anyone(loan, tx_sender) ==
  IF loan.status # STATUS_OPEN THEN Err(ERR_NOT_OPEN) ELSE Ok

\* cancel-loan without its status assert
cancel_loan_guard_any_status(loan, tx_sender) ==
  IF tx_sender # loan.borrower THEN Err(ERR_NOT_BORROWER) ELSE Ok

\* the asserts! of cancel-loan
cancel_loan_guard(loan, tx_sender) ==
  IF loan.status # STATUS_OPEN THEN Err(ERR_NOT_OPEN)
  ELSE IF tx_sender # loan.borrower THEN Err(ERR_NOT_BORROWER)
  ELSE Ok

\* cancel-loan that returns the collateral before it checks the loan
cancel_loan_call_pays_first(loan_id, tx_sender, l) ==
  IF ~map_has(l, loan_id) THEN Reply(Err(ERR_LOAN_NOT_FOUND), l)
  ELSE
    LET loan == map_get(l, loan_id)
        t    == transfer_asset(loan.collateral_is_stx, loan.collateral_amount,
                               contract_self, loan.borrower, tx_sender, l)
        g    == cancel_loan_guard(loan, tx_sender) IN
    IF ~t.res.ok THEN Reply(t.res, l)
    ELSE IF ~g.ok THEN Reply(g, l)
    ELSE Reply(Ok, map_set(t.ledger, loan_id,
                           [loan EXCEPT !.status = STATUS_CANCELLED]))

\* cancel-loan that returns the collateral and leaves the loan Open
cancel_loan_call_keeps_open(loan_id, tx_sender, l) ==
  IF ~map_has(l, loan_id) THEN Reply(Err(ERR_LOAN_NOT_FOUND), l)
  ELSE
    LET loan == map_get(l, loan_id)
        g    == cancel_loan_guard(loan, tx_sender) IN
    IF ~g.ok THEN Reply(g, l)
    ELSE
      LET t == transfer_asset(loan.collateral_is_stx, loan.collateral_amount,
                              contract_self, loan.borrower, tx_sender, l) IN
      IF ~t.res.ok THEN Reply(t.res, l)
      ELSE Reply(Ok, t.ledger)

cancel_loan_call(loan_id, tx_sender, l) ==
  IF ~map_has(l, loan_id) THEN Reply(Err(ERR_LOAN_NOT_FOUND), l)
  ELSE
    LET loan == map_get(l, loan_id)
        g    == cancel_loan_guard(loan, tx_sender) IN
    IF ~g.ok THEN Reply(g, l)
    ELSE
      LET t == transfer_asset(loan.collateral_is_stx, loan.collateral_amount,
                              contract_self, loan.borrower, tx_sender, l) IN
      IF ~t.res.ok THEN Reply(t.res, l)
      ELSE Reply(Ok, map_set(t.ledger, loan_id,
                             [loan EXCEPT !.status = STATUS_CANCELLED]))

\* fund-loan without its status assert
fund_loan_guard_any_status(loan) == Ok

\* the asserts! of fund-loan
fund_loan_guard(loan) ==
  IF loan.status # STATUS_OPEN THEN Err(ERR_NOT_OPEN) ELSE Ok

\* fund-loan that takes the principal into escrow and never forwards it
fund_loan_call_keeps_principal(loan_id, tx_sender, height, l) ==
  IF ~map_has(l, loan_id) THEN Reply(Err(ERR_LOAN_NOT_FOUND), l)
  ELSE
    LET loan == map_get(l, loan_id)
        g    == fund_loan_guard(loan) IN
    IF ~g.ok THEN Reply(g, l)
    ELSE
      LET t1 == transfer_asset(loan.principal_is_stx, loan.principal_amount,
                               tx_sender, contract_self, tx_sender, l) IN
      IF ~t1.res.ok THEN Reply(t1.res, l)
      ELSE IF Overflows(height, loan.end_block) THEN Reply(Aborted, l)
      ELSE Reply(Ok, map_set(t1.ledger, loan_id,
                   [loan EXCEPT !.lender      = tx_sender,
                                !.start_block = height,
                                !.end_block   = height + loan.end_block,
                                !.status      = STATUS_FUNDED]))

\* fund-loan that does not record who funded
fund_loan_call_no_lender(loan_id, tx_sender, height, l) ==
  IF ~map_has(l, loan_id) THEN Reply(Err(ERR_LOAN_NOT_FOUND), l)
  ELSE
    LET loan == map_get(l, loan_id)
        g    == fund_loan_guard(loan) IN
    IF ~g.ok THEN Reply(g, l)
    ELSE
      LET t1 == transfer_asset(loan.principal_is_stx, loan.principal_amount,
                               tx_sender, contract_self, tx_sender, l) IN
      IF ~t1.res.ok THEN Reply(t1.res, l)
      ELSE
        LET t2 == transfer_asset(loan.principal_is_stx, loan.principal_amount,
                                 contract_self, loan.borrower, tx_sender,
                                 t1.ledger) IN
        IF ~t2.res.ok THEN Reply(t2.res, l)
        ELSE IF Overflows(height, loan.end_block) THEN Reply(Aborted, l)
        ELSE Reply(Ok, map_set(t2.ledger, loan_id,
                     [loan EXCEPT !.start_block = height,
                                  !.end_block   = height + loan.end_block,
                                  !.status      = STATUS_FUNDED]))

\* fund-loan that leaves end-block the relative duration
fund_loan_call_relative_end(loan_id, tx_sender, height, l) ==
  IF ~map_has(l, loan_id) THEN Reply(Err(ERR_LOAN_NOT_FOUND), l)
  ELSE
    LET loan == map_get(l, loan_id)
        g    == fund_loan_guard(loan) IN
    IF ~g.ok THEN Reply(g, l)
    ELSE
      LET t1 == transfer_asset(loan.principal_is_stx, loan.principal_amount,
                               tx_sender, contract_self, tx_sender, l) IN
      IF ~t1.res.ok THEN Reply(t1.res, l)
      ELSE
        LET t2 == transfer_asset(loan.principal_is_stx, loan.principal_amount,
                                 contract_self, loan.borrower, tx_sender,
                                 t1.ledger) IN
        IF ~t2.res.ok THEN Reply(t2.res, l)
        ELSE Reply(Ok, map_set(t2.ledger, loan_id,
                     [loan EXCEPT !.lender      = tx_sender,
                                  !.start_block = height,
                                  !.status      = STATUS_FUNDED]))

\* fund-loan whose deadline sum wraps around instead of aborting
fund_loan_call_wraps(loan_id, tx_sender, height, l) ==
  IF ~map_has(l, loan_id) THEN Reply(Err(ERR_LOAN_NOT_FOUND), l)
  ELSE
    LET loan == map_get(l, loan_id)
        g    == fund_loan_guard(loan) IN
    IF ~g.ok THEN Reply(g, l)
    ELSE
      LET t1 == transfer_asset(loan.principal_is_stx, loan.principal_amount,
                               tx_sender, contract_self, tx_sender, l) IN
      IF ~t1.res.ok THEN Reply(t1.res, l)
      ELSE
        LET t2 == transfer_asset(loan.principal_is_stx, loan.principal_amount,
                                 contract_self, loan.borrower, tx_sender,
                                 t1.ledger) IN
        IF ~t2.res.ok THEN Reply(t2.res, l)
        ELSE Reply(Ok, map_set(t2.ledger, loan_id,
                     [loan EXCEPT !.lender      = tx_sender,
                                  !.start_block = height,
                                  !.end_block   = (height + loan.end_block) % (UintMax + 1),
                                  !.status      = STATUS_FUNDED]))

\* fund-loan that records the borrower as the lender
fund_loan_call_lender_is_borrower(loan_id, tx_sender, height, l) ==
  IF ~map_has(l, loan_id) THEN Reply(Err(ERR_LOAN_NOT_FOUND), l)
  ELSE
    LET loan == map_get(l, loan_id)
        g    == fund_loan_guard(loan) IN
    IF ~g.ok THEN Reply(g, l)
    ELSE
      LET t1 == transfer_asset(loan.principal_is_stx, loan.principal_amount,
                               tx_sender, contract_self, tx_sender, l) IN
      IF ~t1.res.ok THEN Reply(t1.res, l)
      ELSE
        LET t2 == transfer_asset(loan.principal_is_stx, loan.principal_amount,
                                 contract_self, loan.borrower, tx_sender,
                                 t1.ledger) IN
        IF ~t2.res.ok THEN Reply(t2.res, l)
        ELSE IF Overflows(height, loan.end_block) THEN Reply(Aborted, l)
        ELSE Reply(Ok, map_set(t2.ledger, loan_id,
                     [loan EXCEPT !.lender      = loan.borrower,
                                  !.start_block = height,
                                  !.end_block   = height + loan.end_block,
                                  !.status      = STATUS_FUNDED]))

fund_loan_call(loan_id, tx_sender, height, l) ==
  IF ~map_has(l, loan_id) THEN Reply(Err(ERR_LOAN_NOT_FOUND), l)
  ELSE
    LET loan == map_get(l, loan_id)
        g    == fund_loan_guard(loan) IN
    IF ~g.ok THEN Reply(g, l)
    ELSE
      LET t1 == transfer_asset(loan.principal_is_stx, loan.principal_amount,
                               tx_sender, contract_self, tx_sender, l) IN
      IF ~t1.res.ok THEN Reply(t1.res, l)
      ELSE
        LET t2 == transfer_asset(loan.principal_is_stx, loan.principal_amount,
                                 contract_self, loan.borrower, tx_sender,
                                 t1.ledger) IN
        IF ~t2.res.ok THEN Reply(t2.res, l)
        ELSE IF Overflows(height, loan.end_block) THEN Reply(Aborted, l)
        ELSE Reply(Ok, map_set(t2.ledger, loan_id,
                     [loan EXCEPT !.lender      = tx_sender,
                                  !.start_block = height,
                                  !.end_block   = height + loan.end_block,
                                  !.status      = STATUS_FUNDED]))

\* repay without its borrower assert
repay_guard_anyone(loan, tx_sender, height) ==
  IF loan.status # STATUS_FUNDED THEN Err(ERR_NOT_FUNDED)
  ELSE IF ~(height <= loan.end_block) THEN Err(ERR_PAST_DUE)
  ELSE IF loan.lender = none THEN Err(ERR_NO_LENDER)
  ELSE Ok

\* repay with a strict deadline comparison
repay_guard_strict(loan, tx_sender, height) ==
  IF loan.status # STATUS_FUNDED THEN Err(ERR_NOT_FUNDED)
  ELSE IF tx_sender # loan.borrower THEN Err(ERR_NOT_BORROWER)
  ELSE IF ~(height < loan.end_block) THEN Err(ERR_PAST_DUE)
  ELSE IF loan.lender = none THEN Err(ERR_NO_LENDER)
  ELSE Ok

\* repay without its status assert
repay_guard_any_status(loan, tx_sender, height) ==
  IF tx_sender # loan.borrower THEN Err(ERR_NOT_BORROWER)
  ELSE IF ~(height <= loan.end_block) THEN Err(ERR_PAST_DUE)
  ELSE IF loan.lender = none THEN Err(ERR_NO_LENDER)
  ELSE Ok

\* the asserts! and the unwrap! of repay
repay_guard(loan, tx_sender, height) ==
  IF loan.status # STATUS_FUNDED THEN Err(ERR_NOT_FUNDED)
  ELSE IF tx_sender # loan.borrower THEN Err(ERR_NOT_BORROWER)
  ELSE IF ~(height <= loan.end_block) THEN Err(ERR_PAST_DUE)
  ELSE IF loan.lender = none THEN Err(ERR_NO_LENDER)
  ELSE Ok

\* repay whose first leg survives the failure of the second
repay_call_no_rollback(loan_id, tx_sender, height, l) ==
  IF ~map_has(l, loan_id) THEN Reply(Err(ERR_LOAN_NOT_FOUND), l)
  ELSE
    LET loan == map_get(l, loan_id)
        g    == repay_guard(loan, tx_sender, height) IN
    IF ~g.ok THEN Reply(g, l)
    ELSE
      LET t1 == transfer_asset(loan.principal_is_stx, loan.repay_amount,
                               tx_sender, loan.lender, tx_sender, l) IN
      IF ~t1.res.ok THEN Reply(t1.res, l)
      ELSE
        LET t2 == transfer_asset(loan.collateral_is_stx, loan.collateral_amount,
                                 contract_self, loan.borrower, tx_sender,
                                 t1.ledger) IN
        IF ~t2.res.ok THEN Reply(t2.res, t1.ledger)
        ELSE Reply(Ok, map_set(t2.ledger, loan_id,
                               [loan EXCEPT !.status = STATUS_REPAID]))

repay_call(loan_id, tx_sender, height, l) ==
  IF ~map_has(l, loan_id) THEN Reply(Err(ERR_LOAN_NOT_FOUND), l)
  ELSE
    LET loan == map_get(l, loan_id)
        g    == repay_guard(loan, tx_sender, height) IN
    IF ~g.ok THEN Reply(g, l)
    ELSE
      LET t1 == transfer_asset(loan.principal_is_stx, loan.repay_amount,
                               tx_sender, loan.lender, tx_sender, l) IN
      IF ~t1.res.ok THEN Reply(t1.res, l)
      ELSE
        LET t2 == transfer_asset(loan.collateral_is_stx, loan.collateral_amount,
                                 contract_self, loan.borrower, tx_sender,
                                 t1.ledger) IN
        IF ~t2.res.ok THEN Reply(t2.res, l)
        ELSE Reply(Ok, map_set(t2.ledger, loan_id,
                               [loan EXCEPT !.status = STATUS_REPAID]))

\* claim-default without its lender assert
claim_default_guard_anyone(loan, tx_sender, height) ==
  IF loan.status # STATUS_FUNDED THEN Err(ERR_NOT_FUNDED)
  ELSE IF ~(height > loan.end_block) THEN Err(ERR_NOT_PAST_DUE)
  ELSE IF loan.lender = none THEN Err(ERR_NO_LENDER)
  ELSE Ok

\* claim-default open from the deadline block itself
claim_default_guard_inclusive(loan, tx_sender, height) ==
  IF loan.status # STATUS_FUNDED THEN Err(ERR_NOT_FUNDED)
  ELSE IF ~(height >= loan.end_block) THEN Err(ERR_NOT_PAST_DUE)
  ELSE IF loan.lender = none THEN Err(ERR_NO_LENDER)
  ELSE IF tx_sender # loan.lender THEN Err(ERR_NOT_LENDER)
  ELSE Ok

\* claim-default that checks the caller before the deadline
claim_default_guard_lender_first(loan, tx_sender, height) ==
  IF loan.status # STATUS_FUNDED THEN Err(ERR_NOT_FUNDED)
  ELSE IF loan.lender = none THEN Err(ERR_NO_LENDER)
  ELSE IF tx_sender # loan.lender THEN Err(ERR_NOT_LENDER)
  ELSE IF ~(height > loan.end_block) THEN Err(ERR_NOT_PAST_DUE)
  ELSE Ok

\* the asserts! and the unwrap! of claim-default
claim_default_guard(loan, tx_sender, height) ==
  IF loan.status # STATUS_FUNDED THEN Err(ERR_NOT_FUNDED)
  ELSE IF ~(height > loan.end_block) THEN Err(ERR_NOT_PAST_DUE)
  ELSE IF loan.lender = none THEN Err(ERR_NO_LENDER)
  ELSE IF tx_sender # loan.lender THEN Err(ERR_NOT_LENDER)
  ELSE Ok

\* claim-default that takes an unknown id for a loan that is not Funded
claim_default_call_unknown_not_funded(loan_id, tx_sender, height, l) ==
  IF ~map_has(l, loan_id) THEN Reply(Err(ERR_NOT_FUNDED), l)
  ELSE
    LET loan == map_get(l, loan_id)
        g    == claim_default_guard(loan, tx_sender, height) IN
    IF ~g.ok THEN Reply(g, l)
    ELSE
      LET t == transfer_asset(loan.collateral_is_stx, loan.collateral_amount,
                              contract_self, loan.lender, tx_sender, l) IN
      IF ~t.res.ok THEN Reply(t.res, l)
      ELSE Reply(Ok, map_set(t.ledger, loan_id,
                             [loan EXCEPT !.status = STATUS_DEFAULTED]))

\* claim-default that hands the collateral back to the borrower
claim_default_call_pays_borrower(loan_id, tx_sender, height, l) ==
  IF ~map_has(l, loan_id) THEN Reply(Err(ERR_LOAN_NOT_FOUND), l)
  ELSE
    LET loan == map_get(l, loan_id)
        g    == claim_default_guard(loan, tx_sender, height) IN
    IF ~g.ok THEN Reply(g, l)
    ELSE
      LET t == transfer_asset(loan.collateral_is_stx, loan.collateral_amount,
                              contract_self, loan.borrower, tx_sender, l) IN
      IF ~t.res.ok THEN Reply(t.res, l)
      ELSE Reply(Ok, map_set(t.ledger, loan_id,
                             [loan EXCEPT !.status = STATUS_DEFAULTED]))

claim_default_call(loan_id, tx_sender, height, l) ==
  IF ~map_has(l, loan_id) THEN Reply(Err(ERR_LOAN_NOT_FOUND), l)
  ELSE
    LET loan == map_get(l, loan_id)
        g    == claim_default_guard(loan, tx_sender, height) IN
    IF ~g.ok THEN Reply(g, l)
    ELSE
      LET t == transfer_asset(loan.collateral_is_stx, loan.collateral_amount,
                              contract_self, loan.lender, tx_sender, l) IN
      IF ~t.res.ok THEN Reply(t.res, l)
      ELSE Reply(Ok, map_set(t.ledger, loan_id,
                             [loan EXCEPT !.status = STATUS_DEFAULTED]))

\* ---------------------------------------------------------------- steps
\* the public functions of p2p-lending that write
Operations == {"create-loan", "cancel-loan", "fund-loan", "repay", "claim-default"}

\* the history after a call of op on loan_id: an ok answer is counted (2 stands
\* for "more than once")
Tally(op, loan_id, res) ==
  IF res.ok
    THEN [succeeded EXCEPT ![loan_id][op] = IF @ < 2 THEN @ + 1 ELSE @]
    ELSE succeeded

\* one transaction: the signer calls a public function of p2p-lending
\* the argument tuples a create-loan transaction is drawn from.  When the id
\* is taken the call answers from its first assert, before it reads any other
\* argument (C2 checks that for every tuple), so one tuple stands for all.
CreateArgs(loan_id) ==
  IF map_has(Ledger, loan_id)
    THEN {<<FALSE, 1, 1, 1, TRUE, 1>>}
    ELSE BOOLEAN \X PrincipalAmounts \X RepayAmounts \X Durations
           \X BOOLEAN \X CollateralAmounts

create_loan(loan_id, caller) ==
  \E a \in CreateArgs(loan_id) :
    \E r \in {create_loan_call(loan_id, a[1], a[2], a[3], a[4], a[5], a[6],
                               caller, Ledger)} :
    /\ loans' = r.ledger.loans
    /\ stx'   = r.ledger.stx
    /\ sbtc'  = r.ledger.sbtc
    /\ succeeded' = Tally("create-loan", loan_id, r.res)
    /\ given_duration' = IF r.res.ok THEN [given_duration EXCEPT ![loan_id] = a[4]]
                                     ELSE given_duration
    /\ UNCHANGED <<block_height, total_supply, currentBlock>>

cancel_loan(loan_id, caller) ==
  \E r \in {cancel_loan_call(loan_id, caller, Ledger)} :
  /\ loans' = r.ledger.loans
  /\ stx'   = r.ledger.stx
  /\ sbtc'  = r.ledger.sbtc
  /\ succeeded' = Tally("cancel-loan", loan_id, r.res)
  /\ UNCHANGED <<block_height, given_duration, total_supply, currentBlock>>

fund_loan(loan_id, caller) ==
  \E r \in {fund_loan_call(loan_id, caller, block_height, Ledger)} :
  /\ loans' = r.ledger.loans
  /\ stx'   = r.ledger.stx
  /\ sbtc'  = r.ledger.sbtc
  /\ succeeded' = Tally("fund-loan", loan_id, r.res)
  /\ UNCHANGED <<block_height, given_duration, total_supply, currentBlock>>

repay(loan_id, caller) ==
  \E r \in {repay_call(loan_id, caller, block_height, Ledger)} :
  /\ loans' = r.ledger.loans
  /\ stx'   = r.ledger.stx
  /\ sbtc'  = r.ledger.sbtc
  /\ succeeded' = Tally("repay", loan_id, r.res)
  /\ UNCHANGED <<block_height, given_duration, total_supply, currentBlock>>

claim_default(loan_id, caller) ==
  \E r \in {claim_default_call(loan_id, caller, block_height, Ledger)} :
  /\ loans' = r.ledger.loans
  /\ stx'   = r.ledger.stx
  /\ sbtc'  = r.ledger.sbtc
  /\ succeeded' = Tally("claim-default", loan_id, r.res)
  /\ UNCHANGED <<block_height, given_duration, total_supply, currentBlock>>

\* a read that takes the record it returns out of the map
read_loan_consumes(loan_id, caller) ==
  /\ loans' = [i \in DOMAIN loans \ {loan_id} |-> loans[i]]
  /\ UNCHANGED <<stx, sbtc, block_height, succeeded, given_duration, total_supply, currentBlock>>

\* anyone calls the read-only get-loan: it answers get_loan(loan_id) and, being
\* read-only, writes nothing
read_loan(loan_id, caller) == UNCHANGED vars

\* the chain produces the next block
mine_block ==
  /\ block_height < MaxBlock
  /\ block_height' = block_height + 1
  /\ UNCHANGED <<loans, stx, sbtc, succeeded, given_duration, total_supply, currentBlock>>

Init ==
  /\ loans = <<>>
  /\ stx = [a \in Accounts |-> IF a \in Users THEN InitStx ELSE 0]
  /\ sbtc = [a \in Accounts |-> IF a \in Users THEN InitSbtc ELSE 0]
  /\ block_height = 1
  /\ succeeded = [id \in LoanIds |-> [op \in Operations |-> 0]]
  /\ given_duration = [id \in LoanIds |-> 0]
  /\ total_supply = InitSbtc * Cardinality(Users)
  /\ currentBlock = 0

Next ==
  \/ \E loan_id \in LoanIds, caller \in Users : create_loan(loan_id, caller)
  \/ \E loan_id \in LoanIds, caller \in Users : cancel_loan(loan_id, caller)
  \/ \E loan_id \in LoanIds, caller \in Users : fund_loan(loan_id, caller)
  \/ \E loan_id \in LoanIds, caller \in Users : repay(loan_id, caller)
  \/ \E loan_id \in LoanIds, caller \in Users : claim_default(loan_id, caller)
  \/ \E loan_id \in LoanIds, caller \in Users : read_loan(loan_id, caller)
  \/ mine_block

Spec == Init /\ [][Next]_vars

\* ------------------------------------------- the frontend beside the chain
\* the block heights the user can type into the "Current block height" field
BlockInputs == 0..UintMax

\* onChange of the field: setCurrentBlock(Number(event.target.value))
setCurrentBlock(value) ==
  /\ currentBlock' = value
  /\ UNCHANGED <<loans, stx, sbtc, block_height, succeeded, given_duration, total_supply>>

\* the loans the frontend has scanned with get-loan
scannedLoans == {id \in LoanIds : map_has(Ledger, id)}

\* dueLoans of buildDashboard
dueLoans ==
  IF currentBlock > 0
    THEN {id \in scannedLoans : /\ get_loan(id).status = STATUS_FUNDED
                                /\ get_loan(id).end_block <= currentBlock}
    ELSE {}

\* activeLoans of buildDashboard
activeLoans ==
  {id \in scannedLoans : /\ get_loan(id).status = STATUS_FUNDED
                         /\ (currentBlock = 0 \/ get_loan(id).end_block > currentBlock)}

\* overdueLoans of the reminders, which are empty while currentBlock is 0
overdueLoans ==
  IF currentBlock = 0 THEN {}
  ELSE {id \in scannedLoans : /\ get_loan(id).status = STATUS_FUNDED
                              /\ get_loan(id).end_block <= currentBlock}

\* the chain with a frontend open on it
DashboardNext ==
  \/ Next
  \/ \E value \in BlockInputs : setCurrentBlock(value)

DashboardSpec == Init /\ [][DashboardNext]_vars

\* -------------------------------------------------- sbtc-token on its own
\* one transaction: the signer calls mint
mint(amount, recipient, caller) ==
  \E r \in {mint_call(amount, recipient, caller, Ledger, total_supply)} :
  /\ sbtc' = r.ledger.sbtc
  /\ total_supply' = r.total_supply
  /\ UNCHANGED <<loans, stx, block_height, succeeded, given_duration, currentBlock>>

\* one transaction: the signer calls transfer directly
token_transfer(amount, sender, recipient, caller) ==
  \E r \in {transfer(amount, sender, recipient, caller, caller, Ledger)} :
  /\ sbtc' = r.ledger.sbtc
  /\ UNCHANGED <<loans, stx, block_height, succeeded, given_duration, total_supply, currentBlock>>

\* the token right after its deployment: nothing minted
TokenInit ==
  /\ loans = <<>>
  /\ stx = [a \in Principals |-> IF a = contract_self THEN 0 ELSE InitStx]
  /\ sbtc = [a \in Principals |-> 0]
  /\ block_height = 1
  /\ succeeded = [id \in LoanIds |-> [op \in Operations |-> 0]]
  /\ given_duration = [id \in LoanIds |-> 0]
  /\ total_supply = 0
  /\ currentBlock = 0

TokenNext ==
  \/ \E amount \in MintAmounts, recipient \in Principals, caller \in Principals :
       mint(amount, recipient, caller)
  \/ \E amount \in MintAmounts, sender \in Principals, recipient \in Principals :
     \E caller \in Principals :
       token_transfer(amount, sender, recipient, caller)

TokenSpec == TokenInit /\ [][TokenNext]_vars

\* ================================================================ claims
Present == DOMAIN loans

\* the loans in a given status
InStatus(st) == {id \in Present : loans[id].status = st}

\* a call that failed and changed nothing
Rejected(r, code) == r = Reply(Err(code), Ledger)

\* every uint, as a ledger step
Steps == 0..UintMax

\* ---------------------------------------------------------------- C1
StatusEdge(a, b) ==
  \/ a = b
  \/ a = STATUS_OPEN   /\ b \in {STATUS_FUNDED, STATUS_CANCELLED}
  \/ a = STATUS_FUNDED /\ b \in {STATUS_REPAID, STATUS_DEFAULTED}

\* C1: status monotonicity.  In every step, whatever the call, the caller and
\* the block height, a record that exists stays and its status either stays or
\* follows Open -> {Funded, Cancelled} or Funded -> {Repaid, Defaulted}; a
\* record that appears starts Open.  So no record returns to Open and none
\* leaves Repaid, Defaulted or Cancelled.
C1_StatusMonotonic ==
  [][\A id \in LoanIds :
       /\ id \in Present =>
            /\ id \in DOMAIN loans'
            /\ StatusEdge(loans[id].status, loans'[id].status)
       /\ (id \notin Present /\ id \in DOMAIN loans') =>
            loans'[id].status = STATUS_OPEN]_vars

\* one loan has been funded and another cancelled
C1_Witness ==
  /\ InStatus(STATUS_FUNDED) # {}
  /\ InStatus(STATUS_CANCELLED) # {}

\* ---------------------------------------------------------------- C2
\* C2: create-loan on an id that has a record, in any status, answers
\* ERR-LOAN-EXISTS for every caller and every choice of the other arguments,
\* and leaves the loan map and every balance as they were.
C2_CreateExistingRejected ==
  \A id \in Present, caller \in Users :
  \A principal_is_stx, collateral_is_stx \in BOOLEAN :
  \A principal_amount \in PrincipalAmounts, repay_amount \in RepayAmounts :
  \A collateral_amount \in CollateralAmounts, duration \in Durations :
    Rejected(create_loan_call(id, principal_is_stx, principal_amount,
                              repay_amount, duration, collateral_is_stx,
                              collateral_amount, caller, Ledger),
             ERR_LOAN_EXISTS)

\* a cancelled (terminal) record and a live one exist, and a create that would
\* pass every other check and could pay its collateral is made over the
\* cancelled one
C2_Witness ==
  \E id \in InStatus(STATUS_CANCELLED), caller \in Users :
    /\ InStatus(STATUS_FUNDED) # {}
    /\ stx[caller] >= 1
    /\ Rejected(create_loan_call(id, FALSE, 1, 1, 1, TRUE, 1, caller, Ledger),
                ERR_LOAN_EXISTS)

\* ---------------------------------------------------------------- C3
\* C3: cancel-loan succeeds only for the stored borrower; on an Open loan any
\* other caller gets ERR-NOT-BORROWER and the record, the escrow and every
\* balance stay as they were.
C3_CancelOnlyBorrower ==
  \A id \in Present, caller \in Users :
    LET r == cancel_loan_call(id, caller, Ledger) IN
    /\ r.res.ok => caller = loans[id].borrower
    /\ (loans[id].status = STATUS_OPEN /\ caller # loans[id].borrower) =>
         Rejected(r, ERR_NOT_BORROWER)

\* an Open loan whose escrowed collateral could be paid out, cancelled by
\* someone who is not its borrower
C3_Witness ==
  \E id \in InStatus(STATUS_OPEN), caller \in Users :
    /\ caller # loans[id].borrower
    /\ ~loans[id].collateral_is_stx
    /\ sbtc[contract_self] >= loans[id].collateral_amount
    /\ Rejected(cancel_loan_call(id, caller, Ledger), ERR_NOT_BORROWER)

\* ---------------------------------------------------------------- C4
\* C4: claim-default never succeeds for a caller who is not the recorded
\* lender: it changes neither the record nor any balance, and once the status
\* and deadline checks pass the rejection is ERR-NOT-LENDER.
C4_ClaimOnlyLender ==
  \A id \in Present, caller \in Users :
    caller # loans[id].lender =>
      LET r == claim_default_call(id, caller, block_height, Ledger) IN
      /\ ~r.res.ok
      /\ r.ledger = Ledger
      /\ (loans[id].status = STATUS_FUNDED /\ block_height > loans[id].end_block) =>
           r.res = Err(ERR_NOT_LENDER)

\* a Funded loan past its deadline, claimed by its borrower who is not its lender
C4_Witness ==
  \E id \in InStatus(STATUS_FUNDED) :
    /\ block_height > loans[id].end_block
    /\ loans[id].borrower # loans[id].lender
    /\ Rejected(claim_default_call(id, loans[id].borrower, block_height, Ledger),
                ERR_NOT_LENDER)

\* ---------------------------------------------------------------- C5
\* C5: repay succeeds only for the stored borrower; on a Funded loan any other
\* caller, the lender included, gets ERR-NOT-BORROWER and nothing changes.
C5_RepayOnlyBorrower ==
  \A id \in Present, caller \in Users :
    LET r == repay_call(id, caller, block_height, Ledger) IN
    /\ r.res.ok => caller = loans[id].borrower
    /\ (loans[id].status = STATUS_FUNDED /\ caller # loans[id].borrower) =>
         Rejected(r, ERR_NOT_BORROWER)

\* a Funded loan still on time, repaid by its lender who is not its borrower
\* and who holds the repay amount
C5_Witness ==
  \E id \in InStatus(STATUS_FUNDED) :
    /\ loans[id].lender # loans[id].borrower
    /\ block_height <= loans[id].end_block
    /\ sbtc[loans[id].lender] >= loans[id].repay_amount
    /\ Rejected(repay_call(id, loans[id].lender, block_height, Ledger),
                ERR_NOT_BORROWER)

\* ---------------------------------------------------------------- C6
\* the deadline assert of repay lets the borrower through at step s
RepayOnTime(id, s) ==
  repay_call(id, loans[id].borrower, s, Ledger).res # Err(ERR_PAST_DUE)

\* the deadline assert of claim-default lets the lender through at step s
ClaimPastDue(id, s) ==
  claim_default_call(id, loans[id].lender, s, Ledger).res # Err(ERR_NOT_PAST_DUE)

\* C6: for every Funded loan and every ledger step s exactly one of the two
\* deadline asserts passes, and at no step do repay by the borrower and
\* claim-default by the lender both succeed.
C6_DeadlineExclusive ==
  \A id \in InStatus(STATUS_FUNDED), s \in Steps :
    /\ RepayOnTime(id, s) # ClaimPastDue(id, s)
    /\ ~(/\ repay_call(id, loans[id].borrower, s, Ledger).res.ok
         /\ claim_default_call(id, loans[id].lender, s, Ledger).res.ok)

\* a Funded loan seen at its deadline block: repay is on time, claim-default is not due
C6_Witness ==
  \E id \in InStatus(STATUS_FUNDED) :
    /\ block_height = loans[id].end_block
    /\ RepayOnTime(id, block_height)
    /\ ~ClaimPastDue(id, block_height)

\* ---------------------------------------------------------------- C7
\* C7: at the step equal to a Funded loan's end-block repay by the borrower
\* passes the deadline assert and claim-default by the lender answers
\* ERR-NOT-PAST-DUE; one step later repay answers ERR-PAST-DUE, changing
\* nothing, and claim-default passes the deadline assert.
C7_DeadlineBoundary ==
  \A id \in InStatus(STATUS_FUNDED) :
    LET loan == loans[id]
        e    == loan.end_block IN
    /\ repay_call(id, loan.borrower, e, Ledger).res # Err(ERR_PAST_DUE)
    /\ Rejected(claim_default_call(id, loan.lender, e, Ledger), ERR_NOT_PAST_DUE)
    /\ e + 1 \in Steps =>
         /\ Rejected(repay_call(id, loan.borrower, e + 1, Ledger), ERR_PAST_DUE)
         /\ claim_default_call(id, loan.lender, e + 1, Ledger).res
              # Err(ERR_NOT_PAST_DUE)

\* the chain stands one block after a Funded loan's deadline and the borrower's
\* repay is refused as past due
C7_Witness ==
  \E id \in InStatus(STATUS_FUNDED) :
    /\ block_height = loans[id].end_block + 1
    /\ Rejected(repay_call(id, loans[id].borrower, block_height, Ledger),
                ERR_PAST_DUE)

\* ---------------------------------------------------------------- C8
\* the balance an account holds of one asset kind
Balance(l, is_stx, account) == IF is_stx THEN l.stx[account] ELSE l.sbtc[account]

\* a transfer of exactly amount of one asset kind from one account to another,
\* seen as the difference between two ledgers
Moved(before, after, is_stx, amount, from, to) ==
  /\ Balance(after, is_stx, from) = Balance(before, is_stx, from) - amount
  /\ Balance(after, is_stx, to) = Balance(before, is_stx, to) + amount

\* C8: default path.  Once block-height is past a Funded loan's end-block,
\* repay by the borrower answers ERR-PAST-DUE and changes nothing, and
\* claim-default by the recorded lender succeeds, sets the status to Defaulted
\* and moves collateral-amount of the collateral asset from escrow to the lender.
C8_DefaultPath ==
  \A id \in InStatus(STATUS_FUNDED) :
    (block_height > loans[id].end_block /\ loans[id].lender # loans[id].borrower) =>
      LET loan == loans[id]
          r    == claim_default_call(id, loan.lender, block_height, Ledger) IN
      /\ Rejected(repay_call(id, loan.borrower, block_height, Ledger), ERR_PAST_DUE)
      /\ r.res.ok
      /\ r.ledger.loans[id].status = STATUS_DEFAULTED
      /\ Moved(Ledger, r.ledger, loan.collateral_is_stx, loan.collateral_amount,
               contract_self, loan.lender)

\* ---------------------------------------------------------------- C9
\* C9: happy path with a token principal and STX collateral.  Create by a
\* borrower who holds the collateral succeeds; fund by a lender who holds the
\* principal succeeds; repay by the borrower at a block <= end-block, holding
\* repay-amount, succeeds, sets the status to Repaid, pays repay-amount of the
\* token to the lender and returns collateral-amount of STX from escrow to the
\* borrower.
C9_HappyPath ==
  /\ \A id \in LoanIds \ Present, caller \in Users :
     \A principal_amount \in PrincipalAmounts, repay_amount \in RepayAmounts :
     \A collateral_amount \in CollateralAmounts, duration \in Durations :
       (/\ principal_amount > 0 /\ collateral_amount > 0 /\ duration > 0
        /\ repay_amount >= principal_amount
        /\ stx[caller] >= collateral_amount) =>
         create_loan_call(id, FALSE, principal_amount, repay_amount, duration,
                          TRUE, collateral_amount, caller, Ledger).res.ok
  /\ \A id \in InStatus(STATUS_OPEN), caller \in Users :
       (/\ ~loans[id].principal_is_stx
        /\ sbtc[caller] >= loans[id].principal_amount
        /\ ~Overflows(block_height, loans[id].end_block)) =>
         fund_loan_call(id, caller, block_height, Ledger).res.ok
  /\ \A id \in InStatus(STATUS_FUNDED) :
       LET loan == loans[id]
           r    == repay_call(id, loan.borrower, block_height, Ledger) IN
       (/\ ~loan.principal_is_stx
        /\ loan.lender # loan.borrower
        /\ block_height <= loan.end_block
        /\ sbtc[loan.borrower] >= loan.repay_amount) =>
         /\ r.res.ok
         /\ r.ledger.loans[id].status = STATUS_REPAID
         /\ Moved(Ledger, r.ledger, FALSE, loan.repay_amount,
                  loan.borrower, loan.lender)
         /\ Moved(Ledger, r.ledger, TRUE, loan.collateral_amount,
                  contract_self, loan.borrower)

\* ---------------------------------------------------------------- C10
\* C10: cancel path.  cancel-loan by the borrower on a loan nobody has funded
\* succeeds, sets the status to Cancelled and returns collateral-amount of the
\* collateral asset from escrow to the borrower; the record's lender is unset
\* then and in every later state.
C10_CancelPath ==
  /\ \A id \in InStatus(STATUS_OPEN) :
       LET loan == loans[id]
           r    == cancel_loan_call(id, loan.borrower, Ledger) IN
       /\ r.res.ok
       /\ r.ledger.loans[id].status = STATUS_CANCELLED
       /\ r.ledger.loans[id].lender = none
       /\ Moved(Ledger, r.ledger, loan.collateral_is_stx, loan.collateral_amount,
                contract_self, loan.borrower)
  /\ \A id \in InStatus(STATUS_CANCELLED) : loans[id].lender = none

\* ---------------------------------------------------------------- C11
\* a loan whose collateral is still owed by the escrow
Live(status) == status \in {STATUS_OPEN, STATUS_FUNDED}

\* the escrow's balance of one asset kind
Escrow(is_stx) == Balance(Ledger, is_stx, contract_self)

RECURSIVE CollateralSum(_, _, _)
\* the collateral of one asset kind recorded in rs for the loans ids
CollateralSum(rs, ids, is_stx) ==
  IF ids = {} THEN 0
  ELSE LET id == CHOOSE i \in ids : TRUE IN
       (IF rs[id].collateral_is_stx = is_stx THEN rs[id].collateral_amount ELSE 0)
         + CollateralSum(rs, ids \ {id}, is_stx)

\* C11: collateral conservation.  In every step and for each asset kind the
\* escrow grows by the collateral-amount of the record the step creates and
\* shrinks by the collateral-amount of the record the step takes out of Open or
\* Funded, and by nothing else; a record's collateral kind and amount never
\* change, and a record that has left Open and Funded never comes back, so its
\* collateral leaves escrow at most once, all of it, in the kind it came in.
C11_CollateralConserved ==
  [][/\ \A id \in Present :
          /\ id \in DOMAIN loans'
          /\ loans'[id].collateral_is_stx = loans[id].collateral_is_stx
          /\ loans'[id].collateral_amount = loans[id].collateral_amount
          /\ ~Live(loans[id].status) => ~Live(loans'[id].status)
     /\ \A is_stx \in BOOLEAN :
          LET entered == DOMAIN loans' \ Present
              left    == {id \in Present : /\ id \in DOMAIN loans'
                                           /\ Live(loans[id].status)
                                           /\ ~Live(loans'[id].status)} IN
          Escrow(is_stx)' = Escrow(is_stx) + CollateralSum(loans', entered, is_stx)
                                           - CollateralSum(loans, left, is_stx)]_vars

\* one loan has been cancelled and its collateral has left the escrow, which
\* still holds exactly the token collateral of another, open loan
C11_Witness ==
  \E i \in InStatus(STATUS_CANCELLED), j \in InStatus(STATUS_OPEN) :
    /\ succeeded[i]["cancel-loan"] = 1
    /\ ~loans[i].collateral_is_stx
    /\ ~loans[j].collateral_is_stx
    /\ sbtc[contract_self] = loans[j].collateral_amount

\* ---------------------------------------------------------------- C12
\* C12: a fund-loan by caller L that answers ok on an Open loan takes
\* principal-amount of the principal asset from L and gives it to the stored
\* borrower (their balance is untouched when L is the borrower), leaves the
\* escrow's balance of that asset as it was, records lender = L and sets the
\* status to Funded.
C12_FundEffect ==
  \A id \in InStatus(STATUS_OPEN), caller \in Users :
    LET loan == loans[id]
        r    == fund_loan_call(id, caller, block_height, Ledger) IN
    r.res.ok =>
      /\ \A a \in Accounts :
           Balance(r.ledger, loan.principal_is_stx, a) =
             Balance(Ledger, loan.principal_is_stx, a)
               - (IF a = caller THEN loan.principal_amount ELSE 0)
               + (IF a = loan.borrower THEN loan.principal_amount ELSE 0)
      /\ r.ledger.loans[id].lender = caller
      /\ r.ledger.loans[id].status = STATUS_FUNDED

\* a loan funded in this block by someone other than its borrower, who has
\* been paid the principal out of the lender's balance
C12_Witness ==
  \E id \in InStatus(STATUS_FUNDED) :
    /\ succeeded[id]["fund-loan"] = 1
    /\ loans[id].lender # loans[id].borrower
    /\ loans[id].start_block = block_height
    /\ sbtc[loans[id].borrower] = InitSbtc + loans[id].principal_amount
    /\ sbtc[loans[id].lender] = InitSbtc - loans[id].principal_amount

CheckErrors ==
  {ERR_LOAN_EXISTS, ERR_LOAN_NOT_FOUND, ERR_NOT_BORROWER, ERR_NOT_LENDER,
   ERR_NOT_OPEN, ERR_NOT_FUNDED, ERR_PAST_DUE, ERR_NOT_PAST_DUE,
   ERR_BAD_AMOUNT, ERR_SAME_ASSET, ERR_NO_LENDER, ERR_BAD_REPAY}

\* a call that answered with the error of a check
FailedCheck(r) == ~r.res.ok /\ r.res.code \in CheckErrors

\* a failed check means nothing changed
CheckKeepsLedger(r) == FailedCheck(r) => r.ledger = Ledger

\* C14: all-or-nothing on a failed precondition.  Whenever one of the five
\* operations answers with the error of an identifier, status, role, deadline
\* or argument check, the loan map and every STX and token balance are as
\* before the call; and the checks come before the first transfer: a call
\* that violates a precondition answers with a check's error whatever the
\* balances are, never with the error of a transfer.
C14_FailedCheckNoEffect ==
  \A id \in LoanIds, caller \in Users :
    /\ \A principal_is_stx \in BOOLEAN, collateral_is_stx \in BOOLEAN :
       \A principal_amount \in PrincipalAmounts, repay_amount \in RepayAmounts :
       \A collateral_amount \in CollateralAmounts, duration \in Durations :
         LET r == create_loan_call(id, principal_is_stx, principal_amount,
                                   repay_amount, duration, collateral_is_stx,
                                   collateral_amount, caller, Ledger) IN
         /\ CheckKeepsLedger(r)
         /\ (\/ id \in Present
             \/ principal_is_stx = collateral_is_stx
             \/ principal_amount = 0 \/ collateral_amount = 0 \/ duration = 0
             \/ repay_amount < principal_amount) => FailedCheck(r)
    /\ LET r == cancel_loan_call(id, caller, Ledger) IN
       /\ CheckKeepsLedger(r)
       /\ (\/ id \notin Present
           \/ loans[id].status # STATUS_OPEN
           \/ caller # loans[id].borrower) => FailedCheck(r)
    /\ LET r == fund_loan_call(id, caller, block_height, Ledger) IN
       /\ CheckKeepsLedger(r)
       /\ (\/ id \notin Present
           \/ loans[id].status # STATUS_OPEN) => FailedCheck(r)
    /\ LET r == repay_call(id, caller, block_height, Ledger) IN
       /\ CheckKeepsLedger(r)
       /\ (\/ id \notin Present
           \/ loans[id].status # STATUS_FUNDED
           \/ caller # loans[id].borrower
           \/ block_height > loans[id].end_block) => FailedCheck(r)
    /\ LET r == claim_default_call(id, caller, block_height, Ledger) IN
       /\ CheckKeepsLedger(r)
       /\ (\/ id \notin Present
           \/ loans[id].status # STATUS_FUNDED
           \/ caller # loans[id].lender
           \/ block_height <= loans[id].end_block) => FailedCheck(r)

\* someone other than the borrower cancels an Open loan whose collateral
\* could not be paid out anyway, and is told so by the role check
C14_Witness ==
  \E id \in InStatus(STATUS_OPEN), caller \in Users :
    /\ caller # loans[id].borrower
    /\ loans[id].collateral_is_stx
    /\ stx[contract_self] > 0
    /\ Rejected(cancel_loan_call(id, caller, Ledger), ERR_NOT_BORROWER)

\* ---------------------------------------------------------------- C15
\* the error codes a transfer leg can answer with
TransferErrors ==
  {ERR_INSUFFICIENT_BALANCE, ERR_SENDER_IS_RECIPIENT, ERR_NON_POSITIVE_AMOUNT,
   ERR_SENDER_NOT_TX_SENDER, ERR_UNAUTHORIZED}

\* a call that answered with the error of a transfer leg
FailedTransfer(r) == ~r.res.ok /\ r.res.code \in TransferErrors

\* a failed transfer leg means nothing changed
TransferKeepsLedger(r) == FailedTransfer(r) => r.ledger = Ledger

\* C15: a transfer failure is atomic.  Whenever an operation answers with the
\* error of one of its transfer legs, the loan map (no record created, none
\* changed) and every balance are as before the call, a leg already made in
\* the same call included.  In particular: fund-loan by a caller holding less
\* than principal-amount, create-loan with valid arguments by a caller holding
\* less than collateral-amount, and repay whose first leg goes through while
\* the return of the collateral fails, all answer a transfer error and change
\* nothing.
C15_TransferFailureAtomic ==
  \A id \in LoanIds, caller \in Users :
    /\ \A principal_is_stx \in BOOLEAN, collateral_is_stx \in BOOLEAN :
       \A principal_amount \in PrincipalAmounts, repay_amount \in RepayAmounts :
       \A collateral_amount \in CollateralAmounts, duration \in Durations :
         LET r == create_loan_call(id, principal_is_stx, principal_amount,
                                   repay_amount, duration, collateral_is_stx,
                                   collateral_amount, caller, Ledger) IN
         /\ TransferKeepsLedger(r)
         /\ (/\ id \notin Present
             /\ principal_is_stx # collateral_is_stx
             /\ principal_amount > 0 /\ collateral_amount > 0 /\ duration > 0
             /\ repay_amount >= principal_amount
             /\ Balance(Ledger, collateral_is_stx, caller) < collateral_amount)
              => FailedTransfer(r)
    /\ TransferKeepsLedger(cancel_loan_call(id, caller, Ledger))
    /\ LET r == fund_loan_call(id, caller, block_height, Ledger) IN
       /\ TransferKeepsLedger(r)
       /\ (/\ id \in InStatus(STATUS_OPEN)
           /\ Balance(Ledger, loans[id].principal_is_stx, caller)
                < loans[id].principal_amount) => FailedTransfer(r)
    /\ LET r == repay_call(id, caller, block_height, Ledger) IN
       /\ TransferKeepsLedger(r)
       /\ (/\ id \in InStatus(STATUS_FUNDED)
           /\ caller = loans[id].borrower
           /\ caller # loans[id].lender
           /\ block_height <= loans[id].end_block
           /\ loans[id].collateral_is_stx
           /\ Balance(Ledger, loans[id].principal_is_stx, caller)
                >= loans[id].repay_amount) => FailedTransfer(r)
    /\ TransferKeepsLedger(claim_default_call(id, caller, block_height, Ledger))

\* the borrower of a Funded loan repays on time and can pay: the repay leg
\* goes through, the return of the collateral fails, and nothing has changed
C15_Witness ==
  \E id \in InStatus(STATUS_FUNDED) :
    LET loan == loans[id] IN
    /\ loan.lender # loan.borrower
    /\ block_height <= loan.end_block
    /\ loan.repay_amount > 0
    /\ sbtc[loan.borrower] >= loan.repay_amount
    /\ transfer_asset(loan.principal_is_stx, loan.repay_amount, loan.borrower,
                      loan.lender, loan.borrower, Ledger).res.ok
    /\ Rejected(repay_call(id, loan.borrower, block_height, Ledger),
                ERR_SENDER_NOT_TX_SENDER)

\* ---------------------------------------------------------------- C16
\* the codes create-loan answers for arguments it does not accept
InvalidAmount == {ERR_BAD_AMOUNT, ERR_SAME_ASSET, ERR_BAD_REPAY}

\* C16: create-loan on an unused id with principal-amount = 0,
\* collateral-amount = 0, duration = 0, repay-amount < principal-amount or the
\* same asset kind on both legs answers one of ERR-BAD-AMOUNT, ERR-SAME-ASSET
\* and ERR-BAD-REPAY, creates no record and moves no collateral.
C16_CreateValidation ==
  \A id \in LoanIds \ Present, caller \in Users :
  \A principal_is_stx \in BOOLEAN, collateral_is_stx \in BOOLEAN :
  \A principal_amount \in PrincipalAmounts, repay_amount \in RepayAmounts :
  \A collateral_amount \in CollateralAmounts, duration \in Durations :
    LET r == create_loan_call(id, principal_is_stx, principal_amount,
                              repay_amount, duration, collateral_is_stx,
                              collateral_amount, caller, Ledger) IN
    (\/ principal_amount = 0 \/ collateral_amount = 0 \/ duration = 0
     \/ repay_amount < principal_amount
     \/ principal_is_stx = collateral_is_stx) =>
       /\ ~r.res.ok
       /\ r.res.code \in InvalidAmount
       /\ r.ledger = Ledger

\* with one loan on the books, a caller who holds the collateral asks for a
\* second loan of no duration and is refused
C16_Witness ==
  \E id \in LoanIds \ Present, caller \in Users :
    /\ Present # {}
    /\ stx[caller] >= 1
    /\ Rejected(create_loan_call(id, FALSE, 1, 1, 0, TRUE, 1, caller, Ledger),
                ERR_BAD_AMOUNT)

\* ---------------------------------------------------------------- C17
\* C17: fund race.  Two callers who each hold principal-amount ask to fund
\* the same Open loan, one after the other, in either order and with any
\* number of blocks between them: the first succeeds; the second is rejected
\* with ERR-NOT-OPEN and changes nothing, so lender, start-block and end-block
\* stay as the first set them and the second caller's balance is untouched;
\* the borrower has received principal-amount once (from themselves when they
\* are the first caller).
C17_FundRace ==
  \A id \in InStatus(STATUS_OPEN), first \in Users, second \in Users :
    LET loan == loans[id]
        r1   == fund_loan_call(id, first, block_height, Ledger) IN
    (/\ first # second
     /\ ~Overflows(block_height, loan.end_block)
     /\ Balance(Ledger, loan.principal_is_stx, first) >= loan.principal_amount
     /\ Balance(Ledger, loan.principal_is_stx, second) >= loan.principal_amount) =>
       /\ r1.res.ok
       /\ r1.ledger.loans[id].lender = first
       /\ Balance(r1.ledger, loan.principal_is_stx, loan.borrower) =
            Balance(Ledger, loan.principal_is_stx, loan.borrower)
              + (IF first = loan.borrower THEN 0 ELSE loan.principal_amount)
       /\ \A height \in block_height..MaxBlock :
            fund_loan_call(id, second, height, r1.ledger) =
              Reply(Err(ERR_NOT_OPEN), r1.ledger)

\* ---------------------------------------------------------------- C18
\* C18: over any sequence of calls each of create-loan, cancel-loan,
\* fund-loan, repay and claim-default succeeds at most once per loan id, at
\* most one of cancel-loan and fund-loan succeeds per loan, and at most one of
\* repay and claim-default.
C18_AtMostOnce ==
  \A id \in LoanIds :
    /\ \A op \in Operations : succeeded[id][op] <= 1
    /\ succeeded[id]["cancel-loan"] + succeeded[id]["fund-loan"] <= 1
    /\ succeeded[id]["repay"] + succeeded[id]["claim-default"] <= 1

\* one loan has been created and funded and another created and cancelled,
\* and both still take calls
C18_Witness ==
  \E i \in InStatus(STATUS_FUNDED), j \in InStatus(STATUS_CANCELLED) :
    /\ succeeded[i]["create-loan"] = 1 /\ succeeded[i]["fund-loan"] = 1
    /\ succeeded[j]["create-loan"] = 1 /\ succeeded[j]["cancel-loan"] = 1
    /\ block_height > loans[i].start_block

\* ---------------------------------------------------------------- C19
\* the statuses no operation leaves
Terminal == {STATUS_REPAID, STATUS_DEFAULTED, STATUS_CANCELLED}

\* every write is refused on loan id of ledger l, which stays as it is
RefusesWrites(l, id) ==
  \A caller \in Users :
    /\ cancel_loan_call(id, caller, l) = Reply(Err(ERR_NOT_OPEN), l)
    /\ \A height \in Steps :
         /\ fund_loan_call(id, caller, height, l) = Reply(Err(ERR_NOT_OPEN), l)
         /\ repay_call(id, caller, height, l) = Reply(Err(ERR_NOT_FUNDED), l)
         /\ claim_default_call(id, caller, height, l) = Reply(Err(ERR_NOT_FUNDED), l)
    /\ \A args \in BOOLEAN \X PrincipalAmounts \X RepayAmounts \X Durations
                     \X BOOLEAN \X CollateralAmounts :
         create_loan_call(id, args[1], args[2], args[3], args[4], args[5],
                          args[6], caller, l) = Reply(Err(ERR_LOAN_EXISTS), l)

\* C19: records are permanent.  Once create-loan has succeeded for an id,
\* get-loan returns a record for it in every later state; and a loan that is
\* Repaid, Defaulted or Cancelled refuses every write (cancel-loan and
\* fund-loan with ERR-NOT-OPEN, repay and claim-default with ERR-NOT-FUNDED,
\* create-loan with ERR-LOAN-EXISTS), whoever calls, at whatever block and
\* with whatever balances, leaving the record and all balances unchanged.
\* The refusal is checked on every record of every reachable state put in each
\* of the three statuses.
C19_RecordsPermanent ==
  \A id \in LoanIds :
    /\ succeeded[id]["create-loan"] >= 1 =>
         map_has(Ledger, id) /\ get_loan(id) = loans[id]
    /\ id \in Present =>
         \A st \in Terminal :
           RefusesWrites(map_set(Ledger, id, [loans[id] EXCEPT !.status = st]), id)

\* a cancelled loan is on the books at a later block, beside an Open loan of
\* the same borrower whose collateral is in escrow
C19_Witness ==
  \E i \in InStatus(STATUS_CANCELLED), j \in InStatus(STATUS_OPEN) :
    /\ succeeded[i]["create-loan"] = 1
    /\ block_height > 1
    /\ loans[i].borrower = loans[j].borrower
    /\ ~loans[j].collateral_is_stx
    /\ sbtc[contract_self] >= loans[i].collateral_amount
    /\ RefusesWrites(Ledger, i)

\* ---------------------------------------------------------------- C20
\* C20: cancel-loan, fund-loan, repay and claim-default on an id that has no
\* record each answer ERR-LOAN-NOT-FOUND, create no record and change no
\* balance.
C20_UnknownLoan ==
  \A id \in LoanIds \ Present, caller \in Users, height \in Steps :
    /\ Rejected(cancel_loan_call(id, caller, Ledger), ERR_LOAN_NOT_FOUND)
    /\ Rejected(fund_loan_call(id, caller, height, Ledger), ERR_LOAN_NOT_FOUND)
    /\ Rejected(repay_call(id, caller, height, Ledger), ERR_LOAN_NOT_FOUND)
    /\ Rejected(claim_default_call(id, caller, height, Ledger), ERR_LOAN_NOT_FOUND)

\* one id is a Funded loan past its deadline, the other has never been
\* created, and the lender's claim on the other is not found
C20_Witness ==
  \E i \in InStatus(STATUS_FUNDED), id \in LoanIds \ Present :
    /\ block_height > loans[i].end_block
    /\ Rejected(claim_default_call(id, loans[i].lender, block_height, Ledger),
                ERR_LOAN_NOT_FOUND)

\* ---------------------------------------------------------------- C21
\* C21: every record of the loan map, in every reachable state, has a
\* principal asset kind different from its collateral asset kind,
\* principal-amount > 0, collateral-amount > 0 and
\* repay-amount >= principal-amount.
C21_RecordWellFormed ==
  \A id \in Present :
    /\ loans[id].principal_is_stx # loans[id].collateral_is_stx
    /\ loans[id].principal_amount > 0
    /\ loans[id].collateral_amount > 0
    /\ loans[id].repay_amount >= loans[id].principal_amount

\* the map holds a loan of each combination of kinds, one of them rewritten
\* by fund-loan and owing more than it lent
C21_Witness ==
  \E i \in InStatus(STATUS_FUNDED), j \in Present :
    /\ loans[i].repay_amount > loans[i].principal_amount
    /\ loans[j].principal_is_stx
    /\ ~loans[i].principal_is_stx

\* ---------------------------------------------------------------- C22
\* the statuses of a loan that has had a lender
Lent == {STATUS_FUNDED, STATUS_REPAID, STATUS_DEFAULTED}

\* C22: in every reachable state a record's lender is unset exactly when its
\* status is Open or Cancelled and set (to a principal) exactly when it is
\* Funded, Repaid or Defaulted; so no repay and no claim-default, by any
\* caller at any block, answers ERR-NO-LENDER.
C22_LenderIffLent ==
  \A id \in Present :
    /\ loans[id].lender = none <=> loans[id].status \in {STATUS_OPEN, STATUS_CANCELLED}
    /\ loans[id].lender \in Users <=> loans[id].status \in Lent
    /\ \A caller \in Users, height \in Steps :
         /\ repay_call(id, caller, height, Ledger).res # Err(ERR_NO_LENDER)
         /\ claim_default_call(id, caller, height, Ledger).res # Err(ERR_NO_LENDER)

\* a Funded loan with its lender beside a Cancelled loan that never had one,
\* the borrower's repay getting past the lender unwrap
C22_Witness ==
  \E i \in InStatus(STATUS_FUNDED), j \in InStatus(STATUS_CANCELLED) :
    /\ loans[i].lender \in Users
    /\ loans[j].lender = none
    /\ repay_call(i, loans[i].borrower, block_height, Ledger).res =
         Err(ERR_SENDER_NOT_TX_SENDER)

\* ---------------------------------------------------------------- C23
\* the deadline fields of the records as the claim describes them
DeadlineFields ==
  \A id \in Present :
    /\ loans[id].status = STATUS_OPEN =>
         /\ loans[id].start_block = 0
         /\ loans[id].end_block = given_duration[id]
         /\ \A caller \in Users :
              LET r == fund_loan_call(id, caller, block_height, Ledger) IN
              r.res.ok =>
                /\ r.ledger.loans[id].start_block = block_height
                /\ r.ledger.loans[id].end_block = block_height + given_duration[id]
    /\ loans[id].status \in Lent =>
         /\ loans[id].start_block >= 1
         /\ loans[id].end_block - loans[id].start_block = given_duration[id]

\* no step changes the deadline fields of a loan that has been funded
DeadlineFrozen ==
  \A id \in Present :
    loans[id].status \in Lent =>
      /\ loans'[id].start_block = loans[id].start_block
      /\ loans'[id].end_block = loans[id].end_block

\* C23: while a loan is Open its start-block is 0 and its end-block is the
\* duration given to create-loan; a fund-loan that succeeds at block h sets
\* start-block = h and end-block = h + that duration; afterwards no step
\* changes either field, so for every Funded, Repaid or Defaulted record
\* end-block - start-block is the duration given to create-loan.
C23_DeadlineFields == []DeadlineFields /\ [][DeadlineFrozen]_vars

\* a loan funded after the first block and looked at in a later block, beside
\* a loan that is still Open with its relative duration
C23_Witness ==
  \E i \in InStatus(STATUS_FUNDED), j \in InStatus(STATUS_OPEN) :
    /\ loans[i].start_block > 1
    /\ block_height > loans[i].start_block
    /\ loans[i].end_block = loans[i].start_block + given_duration[i]
    /\ given_duration[i] > 0
    /\ loans[j].end_block = given_duration[j]

\* ---------------------------------------------------------------- C24
\* what get-loan answers in the current state
ReadsTheMap ==
  \A id \in LoanIds :
    /\ succeeded[id]["create-loan"] = 0 => ~map_has(Ledger, id) /\ get_loan(id) = none
    /\ map_has(Ledger, id) => get_loan(id) = loans[id]

\* the step is a call of a writing function that answered ok and left the
\* records and balances of the next state
WrittenByACall ==
  \E id \in LoanIds, caller \in Users :
    \/ \E a \in CreateArgs(id) :
         LET r == create_loan_call(id, a[1], a[2], a[3], a[4], a[5], a[6],
                                   caller, Ledger) IN
         r.res.ok /\ r.ledger = Ledger'
    \/ \E r \in {cancel_loan_call(id, caller, Ledger),
                 fund_loan_call(id, caller, block_height, Ledger),
                 repay_call(id, caller, block_height, Ledger),
                 claim_default_call(id, caller, block_height, Ledger)} :
         r.res.ok /\ r.ledger = Ledger'

\* C24: get-loan is a pure read.  It answers none for an id no create-loan has
\* succeeded on and otherwise the record held by the map; and no step changes
\* a record or a balance unless it is a call of one of the five writing
\* functions that answered ok, so a get-loan, with any id, by any caller, at
\* any block, changes nothing and what it answers is the record as the last
\* successful write left it.
C24_GetLoanPure ==
  []ReadsTheMap /\ [][Ledger' # Ledger => WrittenByACall]_vars

\* one id has been written twice (created, then funded) and is read in a later
\* block; the other has never been created and reads as none
C24_Witness ==
  \E i \in InStatus(STATUS_FUNDED), j \in LoanIds \ Present :
    /\ block_height > loans[i].start_block
    /\ get_loan(i).lender \in Users
    /\ get_loan(i).status = STATUS_FUNDED
    /\ get_loan(j) = none

\* ---------------------------------------------------------------- C25
\* the accounts whose token balance is lower in ledger l than it is now
Debited(l) == {a \in DOMAIN sbtc : l.sbtc[a] < sbtc[a]}

\* what a call of sbtc-token transfer does, whoever signs and whoever calls
TransferAuthorized ==
  \A sender \in DOMAIN sbtc, recipient \in DOMAIN sbtc :
  \A tx_sender \in DOMAIN sbtc, contract_caller \in DOMAIN sbtc :
  \A amount \in 0..UintMax :
    LET r == transfer(amount, sender, recipient, tx_sender, contract_caller, Ledger) IN
    /\ r.res.ok => /\ sender \in {tx_sender, contract_caller}
                   /\ sbtc[sender] >= amount
    /\ ~r.res.ok => r.ledger = Ledger
    /\ Debited(r.ledger) \subseteq {tx_sender, contract_caller}

\* what the calls of p2p-lending, which reach the token as its caller, do to
\* the token balances
LendingDebitsOwnParties ==
  \A id \in LoanIds, caller \in Users :
    /\ \A a \in CreateArgs(id) :
         Debited(create_loan_call(id, a[1], a[2], a[3], a[4], a[5], a[6],
                                  caller, Ledger).ledger)
           \subseteq {caller, contract_self}
    /\ \A r \in {cancel_loan_call(id, caller, Ledger),
                 fund_loan_call(id, caller, block_height, Ledger),
                 repay_call(id, caller, block_height, Ledger),
                 claim_default_call(id, caller, block_height, Ledger)} :
         Debited(r.ledger) \subseteq {caller, contract_self}

\* C25: a transfer of the token succeeds only if its sender argument is the
\* transaction's signer or the directly calling contract and the sender holds
\* at least the amount; otherwise it fails and no balance changes.  No
\* account's token balance is decreased by a call it neither signed nor made
\* as the calling contract, be it a transfer or a call of p2p-lending.
C25_TransferAuthorized == TransferAuthorized /\ LendingDebitsOwnParties

\* the escrow holds token collateral: a wallet that asks the token directly to
\* move it out is refused, while the same transfer called by p2p-lending
\* goes through
C25_Witness ==
  \E id \in InStatus(STATUS_OPEN), thief \in Users :
    /\ ~loans[id].collateral_is_stx
    /\ sbtc[contract_self] >= loans[id].collateral_amount
    /\ thief # loans[id].borrower
    /\ Rejected(transfer(loans[id].collateral_amount, contract_self, thief,
                         thief, thief, Ledger), ERR_UNAUTHORIZED)
    /\ transfer(loans[id].collateral_amount, contract_self, loans[id].borrower,
                loans[id].borrower, contract_self, Ledger).res.ok

\* ---------------------------------------------------------------- C26
\* C26: mint signed by any principal other than the stored owner answers
\* ERR-NOT-OWNER and changes no balance and not total-supply; a mint by the
\* owner that answers ok raises the recipient's balance and total-supply by
\* exactly the amount and changes no other balance.
C26_MintOwnerOnly ==
  \A amount \in MintAmounts, recipient \in Principals, caller \in Principals :
    LET r == mint_call(amount, recipient, caller, Ledger, total_supply) IN
    /\ caller # owner => r = Minted(Err(ERR_NOT_OWNER), Ledger, total_supply)
    /\ r.res.ok =>
         /\ caller = owner
         /\ r.total_supply = total_supply + amount
         /\ r.ledger = [Ledger EXCEPT !.sbtc[recipient] = @ + amount]
    /\ (caller = owner /\ amount > 0 /\ ~Overflows(total_supply, amount)) => r.res.ok

\* the owner has minted to a wallet, which has passed part of it on; what is
\* held adds up to total-supply, and the wallet's own mint is refused
C26_Witness ==
  \E a \in Users, b \in Users :
    /\ a # b /\ sbtc[a] > 0 /\ sbtc[b] > 0
    /\ total_supply = sbtc[a] + sbtc[b]
    /\ total_supply < UintMax
    /\ mint_call(1, a, a, Ledger, total_supply).res = Err(ERR_NOT_OWNER)
    /\ mint_call(1, a, owner, Ledger, total_supply).res.ok

\* ---------------------------------------------------------------- C27
\* the loans whose collateral the escrow owes
LiveLoans == {id \in Present : Live(loans[id].status)}

\* C27: escrow solvency.  With nothing but the five operations moving assets
\* into or out of the contract's own account, in every reachable state and
\* for each asset kind the contract's balance of that kind is the sum of
\* collateral-amount over the Open and Funded loans whose collateral is of
\* that kind.
C27_EscrowSolvent ==
  \A is_stx \in BOOLEAN : Escrow(is_stx) = CollateralSum(loans, LiveLoans, is_stx)

\* a Funded loan whose STX collateral is all the STX in escrow, after the
\* other loan was cancelled and its token collateral paid back
C27_Witness ==
  \E i \in InStatus(STATUS_FUNDED), j \in InStatus(STATUS_CANCELLED) :
    /\ loans[i].collateral_is_stx
    /\ ~loans[j].collateral_is_stx
    /\ stx[contract_self] = loans[i].collateral_amount
    /\ sbtc[contract_self] = 0

\* ---------------------------------------------------------------- C28
\* C28: no stuck collateral.  Whatever the collateral's asset kind,
\* cancel-loan by the stored borrower on an Open loan succeeds, and
\* claim-default by the recorded lender on a Funded loan at any block past
\* end-block succeeds, each moving the collateral out of escrow and the loan
\* to a terminal status.
C28_NoStuckCollateral ==
  /\ \A id \in InStatus(STATUS_OPEN) :
       LET r == cancel_loan_call(id, loans[id].borrower, Ledger) IN
       /\ r.res.ok
       /\ r.ledger.loans[id].status = STATUS_CANCELLED
       /\ Balance(r.ledger, loans[id].collateral_is_stx, contract_self) =
            Escrow(loans[id].collateral_is_stx) - loans[id].collateral_amount
  /\ \A id \in InStatus(STATUS_FUNDED), height \in Steps :
       LET r == claim_default_call(id, loans[id].lender, height, Ledger) IN
       height > loans[id].end_block =>
         /\ r.res.ok
         /\ r.ledger.loans[id].status = STATUS_DEFAULTED
         /\ Balance(r.ledger, loans[id].collateral_is_stx, contract_self) =
              Escrow(loans[id].collateral_is_stx) - loans[id].collateral_amount

\* ---------------------------------------------------------------- C29
\* C29: fund-loan does not restrict its caller.  The stored borrower, holding
\* principal-amount, can fund their own Open loan, after which lender =
\* borrower; and for every Funded loan, such a one included, repay by the
\* borrower at a block <= end-block with a principal-asset balance of at least
\* repay-amount succeeds and sets the status to Repaid.
C29_SelfFundedRepay ==
  /\ \A id \in InStatus(STATUS_OPEN) :
       LET loan == loans[id]
           r    == fund_loan_call(id, loan.borrower, block_height, Ledger) IN
       (/\ Balance(Ledger, loan.principal_is_stx, loan.borrower) >= loan.principal_amount
        /\ ~Overflows(block_height, loan.end_block)) =>
          /\ r.res.ok
          /\ r.ledger.loans[id].lender = loan.borrower
          /\ r.ledger.loans[id].status = STATUS_FUNDED
  /\ \A id \in InStatus(STATUS_FUNDED) :
       LET loan == loans[id]
           r    == repay_call(id, loan.borrower, block_height, Ledger) IN
       (/\ block_height <= loan.end_block
        /\ Balance(Ledger, loan.principal_is_stx, loan.borrower) >= loan.repay_amount) =>
          /\ r.res.ok
          /\ r.ledger.loans[id].status = STATUS_REPAID

\* a loan its borrower has funded, whose repay by the borrower, on time and
\* solvent, is turned down by the token because sender and recipient agree
SelfFundedRepayRefused ==
  \E id \in InStatus(STATUS_FUNDED) :
    /\ loans[id].lender = loans[id].borrower
    /\ block_height <= loans[id].end_block
    /\ sbtc[loans[id].borrower] >= loans[id].repay_amount
    /\ Rejected(repay_call(id, loans[id].borrower, block_height, Ledger),
                ERR_SENDER_IS_RECIPIENT)

\* ---------------------------------------------------------------- C30
\* the code of the first check that fails in a list of <<holds, code>>
\* pairs, 0 when all hold
FirstFailed(checks) ==
  LET failed == {i \in 1..Len(checks) : ~checks[i][1]} IN
  IF failed = {} THEN 0
  ELSE checks[CHOOSE i \in failed : \A j \in failed : i <= j][2]

\* the response is the error the list of checks calls for, or no check's
\* error when all of them hold
AnswersFirst(r, checks) ==
  \E code \in {FirstFailed(checks)} :
    IF code = 0 THEN ~FailedCheck(r) ELSE r.res = Err(code)

\* every status a record can hold
Statuses ==
  {STATUS_OPEN, STATUS_FUNDED, STATUS_REPAID, STATUS_DEFAULTED, STATUS_CANCELLED}

\* the precedence of create-loan's checks, for every id and argument tuple
CreatePrecedence ==
  \A id \in LoanIds, caller \in Users :
  \A principal_is_stx \in BOOLEAN, collateral_is_stx \in BOOLEAN :
  \A principal_amount \in PrincipalAmounts, repay_amount \in RepayAmounts :
  \A collateral_amount \in CollateralAmounts, duration \in Durations :
    AnswersFirst(create_loan_call(id, principal_is_stx, principal_amount,
                                  repay_amount, duration, collateral_is_stx,
                                  collateral_amount, caller, Ledger),
                 << <<id \notin Present, ERR_LOAN_EXISTS>>,
                    <<principal_is_stx # collateral_is_stx, ERR_SAME_ASSET>>,
                    <<principal_amount > 0, ERR_BAD_AMOUNT>>,
                    <<collateral_amount > 0, ERR_BAD_AMOUNT>>,
                    <<duration > 0, ERR_BAD_AMOUNT>>,
                    <<repay_amount >= principal_amount, ERR_BAD_REPAY>> >>)

\* the precedence of the checks of the four functions that take a loan, on
\* ledger l where loan id has status st and lender ln, for every caller and
\* every block the call can still be made at
LoanPrecedence(l, id, st, ln) ==
  \A caller \in Users :
    /\ AnswersFirst(cancel_loan_call(id, caller, l),
                    << <<st = STATUS_OPEN, ERR_NOT_OPEN>>,
                       <<caller = loans[id].borrower, ERR_NOT_BORROWER>> >>)
    /\ \A height \in block_height..MaxBlock :
         /\ AnswersFirst(fund_loan_call(id, caller, height, l),
                         << <<st = STATUS_OPEN, ERR_NOT_OPEN>> >>)
         /\ AnswersFirst(repay_call(id, caller, height, l),
                         << <<st = STATUS_FUNDED, ERR_NOT_FUNDED>>,
                            <<caller = loans[id].borrower, ERR_NOT_BORROWER>>,
                            <<height <= loans[id].end_block, ERR_PAST_DUE>>,
                            <<ln # none, ERR_NO_LENDER>> >>)
         /\ AnswersFirst(claim_default_call(id, caller, height, l),
                         << <<st = STATUS_FUNDED, ERR_NOT_FUNDED>>,
                            <<height > loans[id].end_block, ERR_NOT_PAST_DUE>>,
                            <<ln # none, ERR_NO_LENDER>>,
                            <<caller = ln, ERR_NOT_LENDER>> >>)

\* C30: error precedence.  When several preconditions fail at once the answer
\* is the first in this order.  create-loan: ERR-LOAN-EXISTS, ERR-SAME-ASSET,
\* ERR-BAD-AMOUNT for the principal, for the collateral, for the duration,
\* ERR-BAD-REPAY.  cancel-loan: ERR-LOAN-NOT-FOUND, ERR-NOT-OPEN,
\* ERR-NOT-BORROWER.  fund-loan: ERR-LOAN-NOT-FOUND, ERR-NOT-OPEN.  repay:
\* ERR-LOAN-NOT-FOUND, ERR-NOT-FUNDED, ERR-NOT-BORROWER, ERR-PAST-DUE,
\* ERR-NO-LENDER.  claim-default: ERR-LOAN-NOT-FOUND, ERR-NOT-FUNDED,
\* ERR-NOT-PAST-DUE, ERR-NO-LENDER, ERR-NOT-LENDER; so someone other than the
\* lender who claims at a block <= end-block gets ERR-NOT-PAST-DUE.  The four
\* functions that take a loan are tried on every record of every reachable
\* state put in each status with each lender, set or unset.
C30_ErrorPrecedence ==
  /\ CreatePrecedence
  /\ \A id \in LoanIds \ Present, caller \in Users, height \in block_height..MaxBlock :
       /\ cancel_loan_call(id, caller, Ledger).res = Err(ERR_LOAN_NOT_FOUND)
       /\ fund_loan_call(id, caller, height, Ledger).res = Err(ERR_LOAN_NOT_FOUND)
       /\ repay_call(id, caller, height, Ledger).res = Err(ERR_LOAN_NOT_FOUND)
       /\ claim_default_call(id, caller, height, Ledger).res = Err(ERR_LOAN_NOT_FOUND)
  /\ \A id \in Present, st \in Statuses, ln \in Users \cup {none} :
     \A l \in {map_set(Ledger, id, [loans[id] EXCEPT !.status = st, !.lender = ln])} :
       LoanPrecedence(l, id, st, ln)

\* a Funded loan not yet past its deadline: someone who is not its lender
\* claims the default and is told it is not past due
C30_Witness ==
  \E id \in InStatus(STATUS_FUNDED), caller \in Users :
    /\ block_height <= loans[id].end_block
    /\ caller # loans[id].lender
    /\ Rejected(claim_default_call(id, caller, block_height, Ledger), ERR_NOT_PAST_DUE)

\* ---------------------------------------------------------------- C31
\* C31: no deadline wrap-around.  fund-loan computes end-block as
\* block-height + the stored duration in uint arithmetic that does not wrap:
\* when the sum is above the largest uint the call does not succeed, the loan
\* stays Open and no balance changes; when the call succeeds end-block is the
\* true sum.  Hence every Funded, Repaid or Defaulted record has
\* end-block > start-block.
C31_NoDeadlineWrap ==
  /\ \A id \in InStatus(STATUS_OPEN), caller \in Users, height \in block_height..MaxBlock :
       LET r == fund_loan_call(id, caller, height, Ledger) IN
       /\ height + loans[id].end_block > UintMax =>
            ~r.res.ok /\ r.ledger = Ledger
       /\ r.res.ok =>
            /\ r.ledger.loans[id].end_block = height + loans[id].end_block
            /\ r.ledger.loans[id].end_block <= UintMax
            /\ r.ledger.loans[id].end_block > r.ledger.loans[id].start_block
  /\ \A id \in Present :
       loans[id].status \in Lent =>
         /\ loans[id].end_block > loans[id].start_block
         /\ loans[id].end_block <= UintMax

\* beside a Funded loan, an Open loan created with the largest duration: a
\* lender who holds its token principal tries to fund it, both legs go
\* through, the sum overflows and the whole call is undone
C31_Witness ==
  \E id \in InStatus(STATUS_OPEN), j \in InStatus(STATUS_FUNDED), caller \in Users :
    /\ given_duration[id] = UintMax
    /\ ~loans[id].principal_is_stx
    /\ caller # loans[id].borrower
    /\ sbtc[caller] >= loans[id].principal_amount
    /\ fund_loan_call(id, caller, block_height, Ledger) = Reply(Aborted, Ledger)

\* ---------------------------------------------------------------- C32
\* a call on loan id that took ledger l to r.ledger left every other id alone
OthersUntouched(l, id, r) ==
  /\ DOMAIN r.ledger.loans \subseteq DOMAIN l.loans \cup {id}
  /\ \A other \in DOMAIN l.loans \ {id} :
       /\ other \in DOMAIN r.ledger.loans
       /\ r.ledger.loans[other] = l.loans[other]

\* the fields create-loan fixes are the same in records a and b
SameTerms(a, b) ==
  /\ a.borrower = b.borrower
  /\ a.principal_is_stx = b.principal_is_stx
  /\ a.collateral_is_stx = b.collateral_is_stx
  /\ a.principal_amount = b.principal_amount
  /\ a.collateral_amount = b.collateral_amount
  /\ a.repay_amount = b.repay_amount

\* at most the status of loan id differs between l and r.ledger
OnlyStatus(l, id, r) ==
  \E st \in Statuses : r.ledger.loans[id] = [l.loans[id] EXCEPT !.status = st]

\* the frame of the five operations called on loan id of ledger l, where id
\* has a record
FrameOn(l, id) ==
  \A caller \in Users :
    /\ \A a \in CreateArgs(id) :
       \A r \in {create_loan_call(id, a[1], a[2], a[3], a[4], a[5], a[6], caller, l)} :
         OthersUntouched(l, id, r) /\ r.ledger.loans[id] = l.loans[id]
    /\ \A r \in {cancel_loan_call(id, caller, l)} :
         OthersUntouched(l, id, r) /\ OnlyStatus(l, id, r)
    /\ \A height \in block_height..MaxBlock :
         /\ \A r \in {fund_loan_call(id, caller, height, l)} :
              /\ OthersUntouched(l, id, r)
              /\ SameTerms(r.ledger.loans[id], l.loans[id])
              /\ ~r.res.ok => r.ledger.loans[id] = l.loans[id]
         /\ \A r \in {repay_call(id, caller, height, l),
                      claim_default_call(id, caller, height, l)} :
              OthersUntouched(l, id, r) /\ OnlyStatus(l, id, r)

\* C32: frame.  An operation on loan id X never changes the record of another
\* id.  For X itself: borrower, both asset kinds, principal-amount,
\* collateral-amount and repay-amount never change after create-loan; lender,
\* start-block and end-block change only in a fund-loan that succeeds; and
\* cancel-loan, repay and claim-default change only the status.  The calls are
\* made on every reachable state, and also with each record put in status
\* Funded with each lender, where repay and claim-default can write.
C32_Frame ==
  \A id \in LoanIds :
    IF id \in Present
      THEN /\ FrameOn(Ledger, id)
           /\ \A ln \in Users :
                FrameOn(map_set(Ledger, id, [loans[id] EXCEPT !.status = STATUS_FUNDED,
                                                              !.lender = ln]), id)
      ELSE \A caller \in Users :
             \A a \in CreateArgs(id) :
               OthersUntouched(Ledger, id,
                 create_loan_call(id, a[1], a[2], a[3], a[4], a[5], a[6],
                                  caller, Ledger))

\* two loans on the books, one Funded and one Open with token collateral:
\* the borrower's cancel of the second succeeds and leaves the first as it is
C32_Witness ==
  \E i \in InStatus(STATUS_FUNDED), j \in InStatus(STATUS_OPEN) :
    LET r == cancel_loan_call(j, loans[j].borrower, Ledger) IN
    /\ r.res.ok
    /\ r.ledger.loans[i] = loans[i]
    /\ r.ledger.loans[j] = [loans[j] EXCEPT !.status = STATUS_CANCELLED]

\* ---------------------------------------------------------------- C33
\* the accounts that hold less STX or less of the token in ledger l than now
Losers(l) == {a \in Accounts : l.stx[a] < stx[a] \/ l.sbtc[a] < sbtc[a]}

\* who the calls on loan id of ledger l debit, and whom they record
DebitsOn(l, id) ==
  \A caller \in Users :
    /\ \A a \in CreateArgs(id) :
       \A r \in {create_loan_call(id, a[1], a[2], a[3], a[4], a[5], a[6], caller, l)} :
         /\ Losers(r.ledger) \subseteq {caller}
         /\ r.res.ok => r.ledger.loans[id].borrower = caller
    /\ Losers(cancel_loan_call(id, caller, l).ledger) \subseteq {contract_self}
    /\ \A height \in block_height..MaxBlock :
         /\ \A r \in {fund_loan_call(id, caller, height, l)} :
              /\ Losers(r.ledger) \subseteq {caller}
              /\ r.res.ok => r.ledger.loans[id].lender = caller
         /\ Losers(repay_call(id, caller, height, l).ledger)
              \subseteq {caller, contract_self}
         /\ Losers(claim_default_call(id, caller, height, l).ledger)
              \subseteq {contract_self}

\* C33: no third-party debit.  A call of the lending contract lowers only the
\* balances of its signer and of the escrow: create-loan and fund-loan the
\* signer's, cancel-loan and claim-default the escrow's, repay the signer's
\* and the escrow's; no call lowers the balance of any other principal; and
\* the borrower and the lender a call stores are the signers of that
\* create-loan and that fund-loan.  The calls are made on every reachable
\* state, and also with each record put in status Funded with each lender,
\* where repay and claim-default can pay.
C33_NoThirdPartyDebit ==
  \A id \in LoanIds :
    /\ DebitsOn(Ledger, id)
    /\ id \in Present =>
         \A ln \in Users :
           DebitsOn(map_set(Ledger, id, [loans[id] EXCEPT !.status = STATUS_FUNDED,
                                                         !.lender = ln]), id)

\* a second wallet funds an Open loan: it alone pays, the borrower and the
\* escrow lose nothing, and it is recorded as the lender
C33_Witness ==
  \E id \in InStatus(STATUS_OPEN), caller \in Users :
    LET r == fund_loan_call(id, caller, block_height, Ledger) IN
    /\ caller # loans[id].borrower
    /\ r.res.ok
    /\ Losers(r.ledger) = {caller}
    /\ r.ledger.loans[id].lender = caller
    /\ sbtc[contract_self] + stx[contract_self] > 0

\* ---------------------------------------------------------------- C34
\* C34: cancel/fund race.  The borrower's cancel-loan and another party's
\* fund-loan (that party holding principal-amount) on the same Open loan, run
\* one after the other in either order: the first succeeds, and the second is
\* rejected with ERR-NOT-OPEN and changes nothing; so the borrower never gets
\* both the collateral back and the principal for one loan.
C34_CancelFundRace ==
  \A id \in InStatus(STATUS_OPEN), funder \in Users :
    LET loan == loans[id] IN
    (/\ funder # loan.borrower
     /\ ~Overflows(block_height, loan.end_block)
     /\ Balance(Ledger, loan.principal_is_stx, funder) >= loan.principal_amount) =>
       /\ \E r1 \in {cancel_loan_call(id, loan.borrower, Ledger)} :
            /\ r1.res.ok
            /\ fund_loan_call(id, funder, block_height, r1.ledger) =
                 Reply(Err(ERR_NOT_OPEN), r1.ledger)
       /\ \E r1 \in {fund_loan_call(id, funder, block_height, Ledger)} :
            /\ r1.res.ok
            /\ cancel_loan_call(id, loan.borrower, r1.ledger) =
                 Reply(Err(ERR_NOT_OPEN), r1.ledger)

\* ---------------------------------------------------------------- C35
\* the accounts that hold more of one asset kind in ledger after than before
Gainers(before, after, is_stx) ==
  {a \in Accounts : Balance(after, is_stx, a) > Balance(before, is_stx, a)}

\* who is paid by the calls that take loan id of ledger l out of escrow
PayoutsOn(l, id) ==
  LET loan == l.loans[id] IN
  \A caller \in Users :
    /\ \A r \in {cancel_loan_call(id, caller, l)} :
         r.res.ok =>
           /\ r.ledger.loans[id].status = STATUS_CANCELLED
           /\ Gainers(l, r.ledger, loan.collateral_is_stx) = {loan.borrower}
           /\ Moved(l, r.ledger, loan.collateral_is_stx, loan.collateral_amount,
                    contract_self, loan.borrower)
    /\ \A height \in block_height..MaxBlock :
         /\ \A r \in {repay_call(id, caller, height, l)} :
              r.res.ok =>
                /\ r.ledger.loans[id].status = STATUS_REPAID
                /\ Gainers(l, r.ledger, loan.collateral_is_stx) = {loan.borrower}
                /\ Moved(l, r.ledger, loan.collateral_is_stx, loan.collateral_amount,
                         contract_self, loan.borrower)
                /\ Moved(l, r.ledger, loan.principal_is_stx, loan.repay_amount,
                         loan.borrower, loan.lender)
         /\ \A r \in {claim_default_call(id, caller, height, l)} :
              r.res.ok =>
                /\ r.ledger.loans[id].status = STATUS_DEFAULTED
                /\ Gainers(l, r.ledger, loan.collateral_is_stx) = {loan.lender}
                /\ Moved(l, r.ledger, loan.collateral_is_stx, loan.collateral_amount,
                         contract_self, loan.lender)
         /\ \A r \in {fund_loan_call(id, caller, height, l)} :
              Balance(r.ledger, loan.collateral_is_stx, contract_self) =
                Balance(l, loan.collateral_is_stx, contract_self)

\* how often the collateral of loan id has been paid out, by which operation
PaidOutBy(id, op) == succeeded[id][op]

\* C35: collateral recipient.  The collateral of a loan in a terminal status
\* has been paid out once, to one party: by cancel-loan or repay to the
\* stored borrower if the status is Cancelled or Repaid, by claim-default to
\* the recorded lender if it is Defaulted; the collateral of an Open or Funded
\* loan has not been paid out; no call pays collateral to anyone else; and a
\* borrower whose loan was funded gets the collateral back only in the repay
\* that pays repay-amount to the lender.  The calls are made on every
\* reachable state, and also with each record put in status Funded with each
\* lender, where repay and claim-default can pay.
C35_CollateralRecipient ==
  \A id \in Present :
    /\ PaidOutBy(id, "cancel-loan") = (IF loans[id].status = STATUS_CANCELLED THEN 1 ELSE 0)
    /\ PaidOutBy(id, "repay") = (IF loans[id].status = STATUS_REPAID THEN 1 ELSE 0)
    /\ PaidOutBy(id, "claim-default") = (IF loans[id].status = STATUS_DEFAULTED THEN 1 ELSE 0)
    /\ succeeded[id]["fund-loan"] = 1 => PaidOutBy(id, "cancel-loan") = 0
    /\ PayoutsOn(Ledger, id)
    /\ \A ln \in Users :
         PayoutsOn(map_set(Ledger, id, [loans[id] EXCEPT !.status = STATUS_FUNDED,
                                                        !.lender = ln]), id)

\* a Cancelled loan whose token collateral is back with its borrower, beside
\* a Funded loan whose borrower has the principal while its collateral is
\* still in escrow
C35_Witness ==
  \E i \in InStatus(STATUS_CANCELLED), j \in InStatus(STATUS_FUNDED) :
    /\ PaidOutBy(i, "cancel-loan") = 1
    /\ ~loans[i].collateral_is_stx
    /\ sbtc[contract_self] = 0
    /\ loans[j].lender # loans[j].borrower
    /\ stx[contract_self] = loans[j].collateral_amount

\* C36: the frontend's deadline classification agrees with the ledger: every
\* Funded loan the dashboard lists as due, or the reminders list as overdue
\* ("past due"), at the current block b is one whose claim-default deadline
\* assert passes at b, and every Funded loan listed as active at b > 0 is one
\* whose repay deadline assert passes at b.
\* The frontend compares end-block <= b where claim-default asserts
\* block-height > end-block: at b = end-block the loan is listed as past due
\* while claim-default answers ERR-NOT-PAST-DUE and repay is still in time.
C36_FrontendAgrees ==
  /\ \A id \in dueLoans \cup overdueLoans : ClaimPastDue(id, currentBlock)
  /\ \A id \in activeLoans : currentBlock > 0 => RepayOnTime(id, currentBlock)

====
